---- MODULE Spec2Model ----
(***************************************************************************)
(* CSV import pipeline of the personal accountant (app/routes/budgets.py,  *)
(* app/routes/transactions.py, app/validators.py, app/money.py):           *)
(* parsing, duplicate signatures, the in-memory batch store and the        *)
(* keep / replace apply, as a state machine over the relational store.     *)
(*                                                                         *)
(* Conventions.  An optional value (Python None or a value) is a sequence  *)
(* of length 0 or 1: None == <<>>, Some(x) == <<x>>.  A calendar date is   *)
(* <<year, month, day>>.  Texts are TLA+ strings; the conversions the code *)
(* applies to them (strip, lower, upper) are given on the vocabulary of    *)
(* the model's input files, and the numeric conversions (Decimal, int,     *)
(* date.fromisoformat) are computed on the characters of the text.         *)
(***************************************************************************)
EXTENDS Integers, Sequences, FiniteSets, Bags, TLC

None == <<>>
Some(x) == <<x>>

(***************************************************************************)
(* Text helpers                                                            *)
(***************************************************************************)

\* str.strip() on the vocabulary: only texts with outer blanks change.
Strip(s) ==
  CASE s = " Rent " -> "Rent"
    [] s = " 12.30 " -> "12.30"
    [] s = " type" -> "type"
    [] s = "  " -> ""
    [] s = " Food " -> "Food"
    [] OTHER -> s

\* str.lower() on the vocabulary: only texts with a capital change.
Lower(s) ==
  CASE s = "Housing" -> "housing"
    [] s = "HOUSING" -> "housing"
    [] s = "Rent" -> "rent"
    [] s = "Insurance" -> "insurance"
    [] s = "Food" -> "food"
    [] s = "FOOD" -> "food"
    [] s = "Lunch" -> "lunch"
    [] s = "EXPENSE" -> "expense"
    [] s = "Expense" -> "expense"
    [] s = "EUR" -> "eur"
    [] s = "USD" -> "usd"
    [] s = "Type" -> "type"
    [] s = "Category" -> "category"
    [] s = "Amount" -> "amount"
    [] s = "Mon" -> "mon"
    [] s = "Month" -> "month"
    [] s = "Recurring" -> "recurring"
    [] s = "Monthly rent" -> "monthly rent"
    [] s = "Car insurance" -> "car insurance"
    [] s = "Rent again" -> "rent again"
    [] OTHER -> s

\* str.upper() on the vocabulary (the code applies it to currency codes only).
Upper(s) ==
  CASE s = "eur" -> "EUR"
    [] s = "Eur" -> "EUR"
    [] s = "usd" -> "USD"
    [] OTHER -> s

\* The characters of a numeric-looking text; every other text of the
\* vocabulary holds a character that is no digit, sign, point or blank,
\* which is all the numeric parsers need to know of it.
Chars(s) ==
  CASE s = "" -> <<>>
    [] s = "0" -> <<"0">>
    [] s = "1" -> <<"1">>
    [] s = "2" -> <<"2">>
    [] s = "-1" -> <<"-", "1">>
    [] s = "40" -> <<"4", "0">>
    [] s = "900.00" -> <<"9", "0", "0", ".", "0", "0">>
    [] s = "120.50" -> <<"1", "2", "0", ".", "5", "0">>
    [] s = "12,50" -> <<"1", "2", ",", "5", "0">>
    [] s = "12.5" -> <<"1", "2", ".", "5">>
    [] s = "12.30" -> <<"1", "2", ".", "3", "0">>
    [] s = "0.005" -> <<"0", ".", "0", "0", "5">>
    [] s = "0.004" -> <<"0", ".", "0", "0", "4">>
    [] s = "-5" -> <<"-", "5">>
    [] s = "-0" -> <<"-", "0">>
    [] s = "1.2.3" -> <<"1", ".", "2", ".", "3">>
    [] s = "2025-01-01" -> <<"2", "0", "2", "5", "-", "0", "1", "-", "0", "1">>
    [] s = "2025-02-01" -> <<"2", "0", "2", "5", "-", "0", "2", "-", "0", "1">>
    [] s = "2025-03-05" -> <<"2", "0", "2", "5", "-", "0", "3", "-", "0", "5">>
    [] s = "2025-02-30" -> <<"2", "0", "2", "5", "-", "0", "2", "-", "3", "0">>
    [] s = "2024-02-29" -> <<"2", "0", "2", "4", "-", "0", "2", "-", "2", "9">>
    [] OTHER -> <<"?">>

DigitChars == {"0", "1", "2", "3", "4", "5", "6", "7", "8", "9"}

DigitVal(c) ==
  CASE c = "0" -> 0 [] c = "1" -> 1 [] c = "2" -> 2 [] c = "3" -> 3
    [] c = "4" -> 4 [] c = "5" -> 5 [] c = "6" -> 6 [] c = "7" -> 7
    [] c = "8" -> 8 [] c = "9" -> 9

AllDigits(cs) == \A i \in 1..Len(cs) : cs[i] \in DigitChars

\* The number a sequence of digit characters denotes (0 for the empty one).
RECURSIVE DigitsVal(_)
DigitsVal(cs) ==
  IF cs = <<>> THEN 0
  ELSE 10 * DigitsVal(SubSeq(cs, 1, Len(cs) - 1)) + DigitVal(cs[Len(cs)])

\* Index of the first "." of cs, or 0.
PointAt(cs) ==
  IF \E i \in 1..Len(cs) : cs[i] = "."
  THEN CHOOSE i \in 1..Len(cs) : cs[i] = "." /\ \A j \in 1..(i - 1) : cs[j] # "."
  ELSE 0

(***************************************************************************)
(* app/money.py                                                            *)
(***************************************************************************)

\* The precision of the decimal module's default context, in digits.
DecimalPrec == 28

DigitChar(k) ==
  CASE k = 0 -> "0" [] k = 1 -> "1" [] k = 2 -> "2" [] k = 3 -> "3" [] k = 4 -> "4"
    [] k = 5 -> "5" [] k = 6 -> "6" [] k = 7 -> "7" [] k = 8 -> "8" [] k = 9 -> "9"

\* A Python int >= 0 is the sequence of its decimal digits, without leading
\* zeros: it has no largest value.  Digits(n) is the int of a number n.
RECURSIVE Digits(_)
Digits(n) == IF n < 10 THEN <<DigitChar(n)>> ELSE Append(Digits(n \div 10), DigitChar(n % 10))

RECURSIVE StripZeros(_)
StripZeros(ds) ==
  IF Len(ds) > 1 /\ ds[1] = "0" THEN StripZeros(Tail(ds))
  ELSE IF ds = <<>> THEN <<"0">> ELSE ds

\* ds + 1 on digits
RECURSIVE Increment(_)
Increment(ds) ==
  IF ds = <<>> THEN <<"1">>
  ELSE IF ds[Len(ds)] = "9" THEN Append(Increment(SubSeq(ds, 1, Len(ds) - 1)), "0")
  ELSE Append(SubSeq(ds, 1, Len(ds) - 1), DigitChar(DigitVal(ds[Len(ds)]) + 1))

\* str.strip() on characters
RECURSIVE StripChars(_)
StripChars(cs) ==
  IF cs # <<>> /\ cs[1] = " " THEN StripChars(Tail(cs))
  ELSE IF cs # <<>> /\ cs[Len(cs)] = " " THEN StripChars(SubSeq(cs, 1, Len(cs) - 1))
  ELSE cs

\* s.replace(",", ".") on characters.
ReplaceComma(cs) == [i \in 1..Len(cs) |-> IF cs[i] = "," THEN "." ELSE cs[i]]

\* str.lower() on the letters of the special values.
LowerChar(c) ==
  CASE c = "N" -> "n" [] c = "A" -> "a" [] c = "I" -> "i" [] c = "F" -> "f"
    [] c = "T" -> "t" [] c = "Y" -> "y" [] c = "S" -> "s" [] OTHER -> c

\* Decimal(s): whether the constructor accepts the text, its sign, and either
\* the special value it denotes (NaN, sNaN, Infinity in any case) or, for the
\* plain notation [sign] digits [. digits], its integer and fraction digits.
\* (Exponents, underscores, NaN payloads and texts of more than DecimalPrec
\* digits are not in the model's texts.)
DecimalParse(cs) ==
  LET signed == Len(cs) > 0 /\ cs[1] \in {"-", "+"}
      body == IF signed THEN SubSeq(cs, 2, Len(cs)) ELSE cs
      low == [i \in 1..Len(body) |-> LowerChar(body[i])]
      special == IF low \in {<<"n", "a", "n">>, <<"s", "n", "a", "n">>} THEN "nan"
                 ELSE IF low \in {<<"i", "n", "f">>,
                                  <<"i", "n", "f", "i", "n", "i", "t", "y">>} THEN "inf"
                 ELSE ""
      p == PointAt(body)
      ip == IF p = 0 THEN body ELSE SubSeq(body, 1, p - 1)
      fp == IF p = 0 THEN <<>> ELSE SubSeq(body, p + 1, Len(body))
      plain == AllDigits(ip) /\ AllDigits(fp) /\ Len(ip) + Len(fp) >= 1
  IN [ok |-> special # "" \/ plain,
      neg |-> signed /\ cs[1] = "-",
      special |-> special,
      ip |-> IF plain THEN ip ELSE <<>>,
      fp |-> IF plain THEN fp ELSE <<>>]

FracDigit(fp, i) == IF i <= Len(fp) THEN fp[i] ELSE "0"

\* int((d * 100).quantize(Decimal("1"), rounding=ROUND_HALF_UP)) for a finite
\* d >= 0, on digits: the third fraction digit decides, a 5 rounds up.
RoundHalfUp(ip, fp) ==
  LET hundredths == StripZeros(ip \o <<FracDigit(fp, 1), FracDigit(fp, 2)>>)
  IN IF DigitVal(FracDigit(fp, 3)) >= 5 THEN Increment(hundredths) ELSE hundredths

IsZeroDecimal(d) ==
  /\ d.special = ""
  /\ \A i \in 1..Len(d.ip) : d.ip[i] = "0"
  /\ \A i \in 1..Len(d.fp) : d.fp[i] = "0"

\* What a call raises, or returns: raised is "" when it returns.
Raise(exception, message) ==
  [raised |-> exception, error |-> message, neg |-> FALSE, value |-> <<>>]
Return(neg, value) == [raised |-> "", error |-> "", neg |-> neg, value |-> value]

\* The last steps of euros_to_cents for the Decimal d that Decimal(s) gave and
\* the cents that rounding d * 100 gives: ordering a NaN (d < 0) and
\* quantizing an infinity or a number of more than DecimalPrec digits signal
\* decimal.InvalidOperation, which the function does not catch.
CheckedCents(d, cents) ==
  IF ~d.ok THEN Raise("MoneyParseError", "Amount must be a number (e.g., 12.99).")
  ELSE IF d.special = "nan"
    THEN Raise("InvalidOperation", "[<class 'decimal.InvalidOperation'>]")
  ELSE IF d.neg /\ ~IsZeroDecimal(d)
    THEN Raise("MoneyParseError", "Amount must be >= 0.")
  ELSE IF d.special = "inf" \/ Len(cents) > DecimalPrec
    THEN Raise("InvalidOperation", "[<class 'decimal.InvalidOperation'>]")
  ELSE Return(FALSE, cents)

DecimalToCents(d) == CheckedCents(d, RoundHalfUp(d.ip, d.fp))

\* euros_to_cents(value), value being None or Some(characters of the text).
euros_to_cents_chars(value) ==
  IF value = None THEN Raise("MoneyParseError", "Amount is required.")
  ELSE DecimalToCents(DecimalParse(ReplaceComma(StripChars(value[1]))))

\* What the parsers make of a call of euros_to_cents: [ok, cents] or
\* [ok = FALSE, error], the error being the text of what was raised (the row
\* loops catch every Exception).
CallResult(r) ==
  IF r.raised # "" THEN [ok |-> FALSE, cents |-> 0, error |-> r.error]
  ELSE [ok |-> TRUE, cents |-> DigitsVal(r.value), error |-> ""]

\* euros_to_cents of a text of the vocabulary, as the parsers call it.
euros_to_cents(value) == CallResult(euros_to_cents_chars(Some(Chars(Strip(value)))))

\* A formatting that does not pad the cents to two digits.
cents_to_euros_str_NoPad(cents) ==
  IF Len(cents) > DecimalPrec THEN Raise("InvalidOperation", "[<class 'decimal.InvalidOperation'>]")
  ELSE LET padded == IF Len(cents) < 2 THEN <<"0">> \o cents ELSE cents
           whole == SubSeq(padded, 1, Len(padded) - 1)
       IN Return(FALSE, whole \o <<".">> \o SubSeq(padded, Len(padded), Len(padded)))

\* cents_to_euros_str(cents) for an int >= 0: the characters of
\* f"{(Decimal(cents) / Decimal(100)).quantize(Decimal('0.01'))}".  The
\* quotient is exact up to DecimalPrec digits; quantize signals
\* decimal.InvalidOperation when its result needs more.
cents_to_euros_str(cents) ==
  IF Len(cents) > DecimalPrec THEN Raise("InvalidOperation", "[<class 'decimal.InvalidOperation'>]")
  ELSE LET padded == IF Len(cents) = 1 THEN <<"0", "0">> \o cents
                     ELSE IF Len(cents) = 2 THEN <<"0">> \o cents
                     ELSE cents
           whole == SubSeq(padded, 1, Len(padded) - 2)
       IN Return(FALSE, whole \o <<".">> \o SubSeq(padded, Len(padded) - 1, Len(padded)))

(***************************************************************************)
(* int() and date.fromisoformat()                                          *)
(***************************************************************************)

\* int(s) of a text: [ok, val]; a ValueError is ok = FALSE.
ParseInt(s) ==
  LET cs == Chars(Strip(s))
      signed == Len(cs) > 0 /\ cs[1] \in {"-", "+"}
      body == IF signed THEN SubSeq(cs, 2, Len(cs)) ELSE cs
  IN IF Len(body) >= 1 /\ AllDigits(body)
       THEN [ok |-> TRUE,
             val |-> IF signed /\ cs[1] = "-" THEN 0 - DigitsVal(body) ELSE DigitsVal(body)]
       ELSE [ok |-> FALSE, val |-> 0]

IsLeap(y) == (y % 4 = 0 /\ y % 100 # 0) \/ y % 400 = 0

DaysInMonth(y, m) ==
  IF m = 2 THEN (IF IsLeap(y) THEN 29 ELSE 28)
  ELSE IF m \in {4, 6, 9, 11} THEN 30 ELSE 31

\* date.fromisoformat(v) for the extended format YYYY-MM-DD: [ok, val] with
\* val = <<y, m, d>>; a ValueError is ok = FALSE.
FromIsoFormat(v) ==
  LET cs == Chars(v)
      shape == /\ Len(cs) = 10
               /\ cs[5] = "-" /\ cs[8] = "-"
               /\ AllDigits(SubSeq(cs, 1, 4))
               /\ AllDigits(SubSeq(cs, 6, 7))
               /\ AllDigits(SubSeq(cs, 9, 10))
      y == DigitsVal(SubSeq(cs, 1, 4))
      m == DigitsVal(SubSeq(cs, 6, 7))
      d == DigitsVal(SubSeq(cs, 9, 10))
  IN IF shape /\ y >= 1 /\ m \in 1..12 /\ d >= 1 /\ d <= DaysInMonth(y, m)
       THEN [ok |-> TRUE, val |-> <<y, m, d>>]
       ELSE [ok |-> FALSE, val |-> <<>>]

\* _parse_date(s): None for a blank text, the date otherwise; date.fromisoformat's
\* ValueError propagates (ok = FALSE).
parse_date(s) ==
  IF Strip(s) = "" THEN [ok |-> TRUE, val |-> None]
  ELSE LET r == FromIsoFormat(Strip(s))
       IN [ok |-> r.ok, val |-> IF r.ok THEN Some(r.val) ELSE None]

(***************************************************************************)
(* csv.DictReader and the lower-keyed row map of _parse_csv                *)
(*                                                                         *)
(* A file is [header, rows]: the fields of its first line (<<>> for an     *)
(* empty file or a blank first line) and the fields of each further line   *)
(* (<<>> for a blank line), as csv.reader yields them for the delimiter    *)
(* the Sniffer chose.                                                      *)
(***************************************************************************)

\* A Python dict as the sequence of its items in insertion order: assigning
\* to a key it holds keeps the key's place.
DictSet(d, k, v) ==
  IF \E i \in 1..Len(d) : d[i].k = k
  THEN [i \in 1..Len(d) |-> IF d[i].k = k THEN [k |-> k, v |-> v] ELSE d[i]]
  ELSE Append(d, [k |-> k, v |-> v])

StrVal(s) == [t |-> "str", s |-> s, l |-> <<>>]
NoneVal == [t |-> "none", s |-> "", l |-> <<>>]
ListVal(l) == [t |-> "list", s |-> "", l |-> l]

RECURSIVE ZipInto(_, _, _, _)
ZipInto(d, fieldnames, row, i) ==
  IF i > Len(fieldnames) \/ i > Len(row) THEN d
  ELSE ZipInto(DictSet(d, Some(fieldnames[i]), StrVal(row[i])), fieldnames, row, i + 1)

RECURSIVE RestInto(_, _, _)
RestInto(d, fieldnames, i) ==
  IF i > Len(fieldnames) THEN d
  ELSE RestInto(DictSet(d, Some(fieldnames[i]), NoneVal), fieldnames, i + 1)

\* csv.DictReader.__next__ for one non-blank line: dict(zip(fieldnames, row)),
\* the surplus fields as a list under restkey None, missing ones as restval None.
DictReaderRow(fieldnames, row) ==
  LET d == ZipInto(<<>>, fieldnames, row, 1)
  IN IF Len(fieldnames) < Len(row)
       THEN DictSet(d, None, ListVal(SubSeq(row, Len(fieldnames) + 1, Len(row))))
     ELSE IF Len(fieldnames) > Len(row)
       THEN RestInto(d, fieldnames, Len(row) + 1)
     ELSE d

\* " ".join(xs)
RECURSIVE JoinBlank(_)
JoinBlank(xs) ==
  IF xs = <<>> THEN ""
  ELSE IF Len(xs) = 1 THEN xs[1]
  ELSE xs[1] \o " " \o JoinBlank(Tail(xs))

\* (k or "").strip().lower()
RowKey(k) == IF k = None THEN "" ELSE Lower(Strip(k[1]))

\* budgets: a list value is joined with blanks, None is ""; all are stripped.
BudgetRowVal(v) ==
  IF v.t = "list" THEN Strip(JoinBlank(v.l))
  ELSE IF v.t = "none" THEN ""
  ELSE Strip(v.s)

RECURSIVE LowerKeyed(_, _, _)
LowerKeyed(d, raw, i) ==
  IF i > Len(raw) THEN d
  ELSE LowerKeyed(DictSet(d, RowKey(raw[i].k), BudgetRowVal(raw[i].v)), raw, i + 1)

\* The row dict as a function from its keys to their texts.
AsRow(d) ==
  [key \in {d[i].k : i \in 1..Len(d)} |->
     (CHOOSE x \in {d[i] : i \in 1..Len(d)} : x.k = key).v]

\* row.get(k, "") and (row.get(k) or "")
Get(row, k) == IF k \in DOMAIN row THEN row[k] ELSE ""

\* The lines DictReader yields: blank lines are skipped.
NonBlank(rows) == SelectSeq(rows, LAMBDA r : r # <<>>)

\* reader.fieldnames = [h.strip() for h in reader.fieldnames]
StripAll(hs) == [i \in 1..Len(hs) |-> Strip(hs[i])]

\* A header check that fails only when every required column is missing.
MissingColumns_AllGone(required, fieldnames) ==
  IF required \cap {Lower(fieldnames[i]) : i \in 1..Len(fieldnames)} = {} THEN required
  ELSE {}

\* required - set(h.lower() for h in reader.fieldnames)
MissingColumns(required, fieldnames) ==
  required \ {Lower(fieldnames[i]) : i \in 1..Len(fieldnames)}

BudgetRequired == {"type", "category", "amount", "currency"}
TransactionRequired == {"date", "type", "category", "description", "amount", "currency"}

\* The synthetic entry of a rejected header.
HeaderError(msg) == <<[rownum |-> 0, error |-> msg, raw |-> <<>>]>>

\* An invalid-row entry.
InvalidRow(i, msg, row) == [rownum |-> i, error |-> msg, raw |-> row]

(***************************************************************************)
(* app/routes/budgets.py: tables and _parse_csv                            *)
(***************************************************************************)

\* WEEKDAY_MAP.get(s): Some(0..6) or None.
WEEKDAY_MAP(s) ==
  CASE s \in {"mon", "monday"} -> Some(0)
    [] s \in {"tue", "tues", "tuesday"} -> Some(1)
    [] s \in {"wed", "wednesday"} -> Some(2)
    [] s \in {"thu", "thur", "thurs", "thursday"} -> Some(3)
    [] s \in {"fri", "friday"} -> Some(4)
    [] s \in {"sat", "saturday"} -> Some(5)
    [] s \in {"sun", "sunday"} -> Some(6)
    [] OTHER -> None

\* REPEAT_UNIT_MAP.get(s)
REPEAT_UNIT_MAP(s) ==
  CASE s \in {"week", "weekly"} -> Some("weekly")
    [] s \in {"month", "monthly"} -> Some("monthly")
    [] s \in {"year", "yearly"} -> Some("yearly")
    [] OTHER -> None

\* SCHEDULE_MAP.get(s)
SCHEDULE_MAP(s) ==
  CASE s \in {"", "one-time", "one_time", "onetime", "one time"} -> Some("one-time")
    [] s \in {"recurring", "repeat"} -> Some("recurring")
    [] OTHER -> None

Fail(msg, row) == [ok |-> FALSE, error |-> msg, raw |-> row, parsed |-> <<>>]
Pass(parsed, row) == [ok |-> TRUE, error |-> "", raw |-> row, parsed |-> parsed]

\* A recovery that takes the note but leaves the field as it is.
ShiftedNote_KeepsField(row) ==
  LET note == Strip(Get(row, "note"))
      e == Strip(Get(row, "end_date"))
      s == Strip(Get(row, "start_date"))
  IN IF note # "" THEN [note |-> note, row |-> row]
     ELSE IF e # "" /\ ~FromIsoFormat(e).ok THEN [note |-> e, row |-> row]
     ELSE IF s # "" /\ ~FromIsoFormat(s).ok THEN [note |-> s, row |-> row]
     ELSE [note |-> "", row |-> row]

\* Shifted-note recovery (budgets.py 283-297): with an empty note, the first of
\* end_date, start_date that is non-empty and no ISO date becomes the note and
\* is cleared in the row.  Result: [note, row].
ShiftedNote(row) ==
  LET note == Strip(Get(row, "note"))
      e == Strip(Get(row, "end_date"))
      s == Strip(Get(row, "start_date"))
      Clear(k) == [key \in DOMAIN row \cup {k} |-> IF key = k THEN "" ELSE row[key]]
  IN IF note # "" THEN [note |-> note, row |-> row]
     ELSE IF e # "" /\ ~FromIsoFormat(e).ok THEN [note |-> e, row |-> Clear("end_date")]
     ELSE IF s # "" /\ ~FromIsoFormat(s).ok THEN [note |-> s, row |-> Clear("start_date")]
     ELSE [note |-> "", row |-> row]

OrNone(s) == IF s = "" THEN None ELSE Some(s)

\* The recurring branch of the row loop (budgets.py 323-377).
BudgetRecurringRow(row, btype, category, subcategory, amount_cents, currency, note) ==
  LET repeat_every == Strip(Get(row, "repeat_every"))
      interval == ParseInt(repeat_every)
      unit_norm == REPEAT_UNIT_MAP(Lower(Strip(Get(row, "repeat_unit"))))
      wd_raw == Lower(Strip(Get(row, "on_weekday")))
      dom_raw == Strip(Get(row, "on_day"))
      dom == ParseInt(dom_raw)
      start_date == parse_date(Get(row, "start_date"))
      end_date == parse_date(Get(row, "end_date"))
      weekly == unit_norm = Some("weekly")
  IN IF repeat_every = "" THEN Fail("repeat_every is required for recurring items.", row)
     ELSE IF ~interval.ok THEN Fail("repeat_every must be a number (e.g., 1).", row)
     ELSE IF unit_norm = None
       THEN Fail("repeat_unit must be 'week', 'month', or 'year' for recurring items.", row)
     ELSE IF weekly /\ wd_raw = ""
       THEN Fail("on_weekday is required for weekly recurring items (e.g., Mon).", row)
     ELSE IF weekly /\ WEEKDAY_MAP(wd_raw) = None
       THEN Fail("on_weekday must be one of Mon/Tue/Wed/Thu/Fri/Sat/Sun.", row)
     ELSE IF ~weekly /\ dom_raw = ""
       THEN Fail("on_day is required for monthly/yearly recurring items (1..31).", row)
     ELSE IF ~weekly /\ ~dom.ok THEN Fail("on_day must be a number (1..31).", row)
     ELSE IF ~start_date.ok THEN Fail("Invalid isoformat string", row)
     ELSE IF ~end_date.ok THEN Fail("Invalid isoformat string", row)
     ELSE Pass([type |-> btype,
                category |-> category,
                subcategory |-> subcategory,
                amount_cents |-> amount_cents,
                currency |-> currency,
                is_recurring |-> TRUE,
                one_time_date |-> None,
                repeat_unit |-> unit_norm,
                repeat_interval |-> Some(interval.val),
                weekday |-> IF weekly THEN WEEKDAY_MAP(wd_raw) ELSE None,
                day_of_month |-> IF weekly THEN None ELSE Some(dom.val),
                start_date |-> start_date.val,
                end_date |-> end_date.val,
                note |-> note], row)

\* The body of the row loop (budgets.py 260-382) for one lower-keyed row:
\* the parsed row, or the text of the first error raised.
BudgetRow(row0) ==
  LET btype == Lower(Get(row0, "type"))
      category == Strip(Get(row0, "category"))
      subcategory == OrNone(Strip(Get(row0, "subcategory")))
      amount == euros_to_cents(Get(row0, "amount"))
      cur0 == Upper(Strip(IF Get(row0, "currency") = "" THEN "EUR" ELSE Get(row0, "currency")))
      currency == IF cur0 = "" THEN "EUR" ELSE cur0
      schedule == SCHEDULE_MAP(Lower(Strip(Get(row0, "schedule"))))
      sn == ShiftedNote(row0)
      row == sn.row
      note == OrNone(sn.note)
      one_time_date == parse_date(Get(row, "date"))
  IN IF btype \notin {"income", "expense"} THEN Fail("type must be 'income' or 'expense'.", row0)
     ELSE IF category = "" THEN Fail("category is required.", row0)
     ELSE IF ~amount.ok THEN Fail(amount.error, row0)
     ELSE IF schedule = None
       THEN Fail("schedule must be 'one-time' or 'recurring' (or empty).", row0)
     ELSE IF schedule = Some("one-time")
       THEN IF ~one_time_date.ok THEN Fail("Invalid isoformat string", row)
            ELSE IF one_time_date.val = None
              THEN Fail("date is required for one-time items (YYYY-MM-DD).", row)
            ELSE Pass([type |-> btype,
                       category |-> category,
                       subcategory |-> subcategory,
                       amount_cents |-> amount.cents,
                       currency |-> currency,
                       is_recurring |-> FALSE,
                       one_time_date |-> one_time_date.val,
                       repeat_unit |-> None,
                       repeat_interval |-> None,
                       weekday |-> None,
                       day_of_month |-> None,
                       start_date |-> None,
                       end_date |-> None,
                       note |-> note], row)
     ELSE BudgetRecurringRow(row, btype, category, subcategory, amount.cents, currency, note)

\* A row loop that lists every row among the invalid ones, accepted rows too.
RECURSIVE BudgetRows_ListsAll(_, _, _, _)
BudgetRows_ListsAll(fieldnames, lines, i, acc) ==
  IF i > Len(lines) THEN acc
  ELSE LET raw == DictReaderRow(fieldnames, lines[i])
           r == BudgetRow(AsRow(LowerKeyed(<<>>, raw, 1)))
       IN BudgetRows_ListsAll(fieldnames, lines, i + 1,
            [acc EXCEPT !.valid = IF r.ok THEN Append(@, r.parsed) ELSE @,
                        !.invalid = Append(@, InvalidRow(i + 1, r.error, r.raw))])

\* The row loop: enumerate(reader, start=2) over the non-blank lines.
RECURSIVE BudgetRows(_, _, _, _)
BudgetRows(fieldnames, lines, i, acc) ==
  IF i > Len(lines) THEN acc
  ELSE LET raw == DictReaderRow(fieldnames, lines[i])
           r == BudgetRow(AsRow(LowerKeyed(<<>>, raw, 1)))
       IN BudgetRows(fieldnames, lines, i + 1,
            IF r.ok THEN [acc EXCEPT !.valid = Append(@, r.parsed)]
            ELSE [acc EXCEPT !.invalid = Append(@, InvalidRow(i + 1, r.error, r.raw))])

\* budgets._parse_csv: [valid, invalid, crashed]; it never raises.
budgets_parse_csv(file) ==
  LET fieldnames == StripAll(file.header)
  IN IF file.header = <<>>
       THEN [valid |-> <<>>, invalid |-> HeaderError("CSV has no header row."),
             crashed |-> FALSE]
     ELSE IF MissingColumns(BudgetRequired, fieldnames) # {}
       THEN [valid |-> <<>>, invalid |-> HeaderError("Missing required columns"),
             crashed |-> FALSE]
     ELSE BudgetRows(fieldnames, NonBlank(file.rows), 1,
                     [valid |-> <<>>, invalid |-> <<>>, crashed |-> FALSE])

(***************************************************************************)
(* app/routes/transactions.py: _parse_csv                                  *)
(***************************************************************************)

\* transactions.py 235: {(k or "").strip().lower(): (v or "").strip()}; a list
\* value (a line longer than the header) has no strip(): AttributeError.
TransactionRowVal(v) == IF v.t = "none" THEN "" ELSE Strip(v.s)

RECURSIVE TxLowerKeyed(_, _, _)
TxLowerKeyed(d, raw, i) ==
  IF i > Len(raw) THEN d
  ELSE TxLowerKeyed(DictSet(d, RowKey(raw[i].k), TransactionRowVal(raw[i].v)), raw, i + 1)

HasListValue(raw) == \E i \in 1..Len(raw) : raw[i].v.t = "list"

\* The row loop after the date (transactions.py 241-276), d the parsed date.
TransactionFields(row, d) ==
  LET tx_type == Lower(Strip(Get(row, "type")))
      category == Strip(Get(row, "category"))
      subcategory == OrNone(Strip(Get(row, "subcategory")))
      description == Strip(Get(row, "description"))
      amount == euros_to_cents(Get(row, "amount"))
      cur0 == Upper(Strip(IF Get(row, "currency") = "" THEN "EUR" ELSE Get(row, "currency")))
      currency == IF cur0 = "" THEN "EUR" ELSE cur0
      note == OrNone(Strip(Get(row, "note")))
  IN IF tx_type \notin {"income", "expense"}
       THEN Fail("type must be 'income' or 'expense'.", row)
     ELSE IF category = "" THEN Fail("category is required.", row)
     ELSE IF description = "" THEN Fail("description is required.", row)
     ELSE IF ~amount.ok THEN Fail(amount.error, row)
     ELSE Pass([date |-> d,
                type |-> tx_type,
                category |-> category,
                subcategory |-> subcategory,
                description |-> description,
                amount_cents |-> amount.cents,
                currency |-> currency,
                note |-> note], row)

\* A row loop that checks the type before the date.
TransactionRow_TypeFirst(row) ==
  LET d == parse_date(Get(row, "date"))
  IN IF Lower(Strip(Get(row, "type"))) \notin {"income", "expense"}
       THEN Fail("type must be 'income' or 'expense'.", row)
     ELSE IF ~d.ok THEN Fail("Invalid isoformat string", row)
     ELSE IF d.val = None THEN Fail("date is required (YYYY-MM-DD).", row)
     ELSE TransactionFields(row, d.val)

\* The body of the row loop (transactions.py 236-276) for one lower-keyed row.
TransactionRow(row) ==
  LET d == parse_date(Get(row, "date"))
  IN IF ~d.ok THEN Fail("Invalid isoformat string", row)
     ELSE IF d.val = None THEN Fail("date is required (YYYY-MM-DD).", row)
     ELSE TransactionFields(row, d.val)

RECURSIVE TransactionRows(_, _, _, _)
TransactionRows(fieldnames, lines, i, acc) ==
  IF i > Len(lines) THEN acc
  ELSE LET raw == DictReaderRow(fieldnames, lines[i])
           r == TransactionRow(AsRow(TxLowerKeyed(<<>>, raw, 1)))
       IN IF HasListValue(raw)
            THEN [valid |-> <<>>, invalid |-> <<>>, crashed |-> TRUE]
          ELSE TransactionRows(fieldnames, lines, i + 1,
                 IF r.ok THEN [acc EXCEPT !.valid = Append(@, r.parsed)]
                 ELSE [acc EXCEPT !.invalid = Append(@, InvalidRow(i + 1, r.error, r.raw))])

\* transactions._parse_csv: [valid, invalid, crashed]; crashed is the
\* AttributeError raised outside the row's try block.
transactions_parse_csv(file) ==
  LET fieldnames == StripAll(file.header)
  IN IF file.header = <<>>
       THEN [valid |-> <<>>, invalid |-> HeaderError("CSV has no header row."),
             crashed |-> FALSE]
     ELSE IF MissingColumns(TransactionRequired, fieldnames) # {}
       THEN [valid |-> <<>>, invalid |-> HeaderError("Missing required columns"),
             crashed |-> FALSE]
     ELSE TransactionRows(fieldnames, NonBlank(file.rows), 1,
                          [valid |-> <<>>, invalid |-> <<>>, crashed |-> FALSE])

(***************************************************************************)
(* Signatures (budgets.py 169-207, transactions.py 175-197)                *)
(***************************************************************************)

\* (row.get("subcategory") or "").strip().lower() or None
SubSig(sub) ==
  IF sub = None THEN None
  ELSE IF Lower(Strip(sub[1])) = "" THEN None ELSE Some(Lower(Strip(sub[1])))

\* budgets._sig_from_row
budgets_sig_from_row(row) ==
  <<row.type,
    Lower(Strip(row.category)),
    SubSig(row.subcategory),
    row.amount_cents,
    Upper(row.currency),
    row.is_recurring,
    row.one_time_date,
    row.repeat_unit,
    row.repeat_interval,
    row.weekday,
    row.day_of_month,
    row.start_date,
    row.end_date>>

\* A signature of a stored budget that takes the names as they are stored,
\* in their own case.
budgets_sig_from_existing_NamesAsStored(b, cat_name, sub_name) ==
  <<b.type, Strip(cat_name),
    IF sub_name = None \/ sub_name = Some("") THEN None ELSE Some(Strip(sub_name[1])),
    b.amount_cents, Upper(b.currency), b.is_recurring, b.one_time_date, b.repeat_unit,
    b.repeat_interval, b.weekday, b.day_of_month, b.start_date, b.end_date>>

\* budgets._sig_from_existing: b a Budget record, the names as the upload
\* resolved them (sub_name None when the budget has no subcategory).
budgets_sig_from_existing(b, cat_name, sub_name) ==
  <<b.type,
    Lower(Strip(cat_name)),
    IF sub_name = None \/ sub_name = Some("") THEN None ELSE Some(Lower(Strip(sub_name[1]))),
    b.amount_cents,
    Upper(b.currency),
    b.is_recurring,
    b.one_time_date,
    b.repeat_unit,
    b.repeat_interval,
    b.weekday,
    b.day_of_month,
    b.start_date,
    b.end_date>>

\* transactions._sig_from_row
transactions_sig_from_row(row) ==
  <<row.date,
    row.type,
    Lower(Strip(row.category)),
    SubSig(row.subcategory),
    Lower(Strip(row.description)),
    row.amount_cents,
    Upper(row.currency)>>

\* transactions._sig_from_existing; description None counts as "".
transactions_sig_from_existing(t, cat_name, sub_name) ==
  <<t.date,
    t.type,
    Lower(Strip(cat_name)),
    IF sub_name = None \/ sub_name = Some("") THEN None ELSE Some(Lower(Strip(sub_name[1]))),
    Lower(Strip(t.description)),
    t.amount_cents,
    Upper(t.currency)>>

(***************************************************************************)
(* app/validators.py                                                       *)
(***************************************************************************)

\* validate_budget(b): TRUE when no ValidationError is raised.
validate_budget(b) ==
  IF b.is_recurring
  THEN /\ b.one_time_date = None
       /\ b.repeat_unit # None
       /\ b.repeat_interval # None /\ b.repeat_interval[1] >= 1
       /\ (b.repeat_unit = Some("weekly") =>
             /\ b.weekday # None /\ b.weekday[1] >= 0 /\ b.weekday[1] <= 6
             /\ b.day_of_month = None)
       /\ (b.repeat_unit \in {Some("monthly"), Some("yearly")} =>
             /\ b.day_of_month # None /\ b.day_of_month[1] >= 1 /\ b.day_of_month[1] <= 31
             /\ b.weekday = None)
  ELSE /\ b.one_time_date # None
       \* any([...]): a field counts when it is neither None nor 0
       /\ b.repeat_unit = None
       /\ b.repeat_interval \in {None, Some(0)}
       /\ b.day_of_month \in {None, Some(0)}
       /\ b.weekday \in {None, Some(0)}
       /\ b.start_date = None
       /\ b.end_date = None

\* validate_transaction(t): TRUE when no ValidationError is raised.
validate_transaction(t) ==
  /\ t.date # None
  /\ t.type \in {"income", "expense"}
  /\ t.category_id > 0
  /\ t.amount_cents > 0
  /\ Upper(Strip(t.currency)) # ""
  /\ Strip(t.description) # ""

(***************************************************************************)
(* The input files of the model                                            *)
(***************************************************************************)

BudgetHeader ==
  <<"type", "category", "subcategory", "amount", "currency", "schedule", "date",
    "repeat_every", "repeat_unit", "on_weekday", "on_day", "start_date", "end_date", "note">>

\* The two lines of tests/test_budget_csv_import_flow.py: a monthly rent, and a
\* one-time line that is one comma short (its note lands in end_date).
LineRent ==
  <<"expense", "Housing", "Rent", "900.00", "EUR", "recurring", "", "1", "month", "", "1",
    "2025-01-01", "", "Monthly rent">>
LineInsurance ==
  <<"expense", "Insurance", "", "120.50", "EUR", "one-time", "2025-02-01", "", "", "", "", "",
    "Car insurance">>
\* The rent again, with another spelling of the category and another note.
LineRentAgain ==
  <<"Expense", "HOUSING", " Rent ", "900.00", "eur", "Recurring", "", "1", "Month", "", "1",
    "2025-01-01", "", "Rent again">>
\* repeat_every 0: the parser accepts it, validate_budget does not.
LineEveryZero ==
  <<"expense", "Housing", "", "900.00", "EUR", "recurring", "", "0", "month", "", "1",
    "", "", "">>
\* No category.
LineNoCategory ==
  <<"expense", "", "", "900.00", "EUR", "one-time", "2025-02-01", "", "", "", "", "", "", "">>

\* The budget file a client uploads, by name.
BudgetFiles == {"budgets.csv"}

TransactionHeader ==
  <<"date", "type", "category", "subcategory", "description", "amount", "currency", "note">>

LineLunch == <<"2025-03-05", "expense", "Food", "", "Lunch", "12,50", "eur", "n1">>
LineLunchAgain == <<"2025-03-05", "EXPENSE", "FOOD", "", "lunch", "12.5", "EUR", "n2">>
\* Amount 0: the parser accepts it, validate_transaction does not.
LineFree == <<"2025-03-05", "expense", "Food", "", "Lunch", "0", "EUR", "">>
LineBadDate == <<"2025-02-30", "expense", "Food", "", "Lunch", "12.5", "EUR", "">>
\* The transaction file a client uploads, by name.
TransactionFiles == {"transactions.csv"}

Kinds == {"budget", "transaction"}

Files(kind) == IF kind = "budget" THEN BudgetFiles ELSE TransactionFiles

\* The content of a file: its header line and its data lines, as csv.reader
\* splits them.
Content(file) ==
  CASE file = "budgets.csv" ->
         [header |-> BudgetHeader,
          rows |-> <<LineRent, LineInsurance, LineEveryZero, LineRentAgain>>]
    [] file = "transactions.csv" ->
         [header |-> TransactionHeader,
          rows |-> <<LineLunchAgain, LineLunch, LineFree, LineBadDate>>]

parse_csv(kind, content) ==
  IF kind = "budget" THEN budgets_parse_csv(content) ELSE transactions_parse_csv(content)

\* The parse of the files, computed once.  Each is compared with itself, which
\* puts its records in TLC's normal form before the workers share the value.
ParsedBudgets ==
  LET p == parse_csv("budget", Content("budgets.csv")) IN IF p = p THEN p ELSE p
ParsedTransactions ==
  LET p == parse_csv("transaction", Content("transactions.csv")) IN IF p = p THEN p ELSE p
Parsed(file) ==
  CASE file = "budgets.csv" -> ParsedBudgets
    [] file = "transactions.csv" -> ParsedTransactions

(***************************************************************************)
(* State                                                                   *)
(***************************************************************************)

\* Registered users (User.id) and clients (one cookie jar each).
Users == {1, 2}
Sessions == {"s1"}
\* Apply requests that can be inside their handler at the same time (FastAPI
\* runs the handlers, plain def functions, on a pool of worker threads).
Workers == {"w1", "w2"}
\* Uploads accepted in one behaviour (each takes a fresh uuid4).
MaxBatches == 2

VARIABLES
  session,         \* the session cookie of each client: user_id (0: none) and
                   \* the batch id it carries per kind (0: none)
  IMPORT_BATCHES,  \* the two module-level dicts _IMPORT_BATCHES, per kind
  db,              \* the tables Budget, Transaction, Category, Subcategory and
                   \* the next primary key of each
  next_batch,      \* the next fresh batch id (uuid4 never repeats)
  inflight,        \* the apply requests past their checks: a bag of their locals
  resp,            \* the import request answered last (who asked what) and its response
  history,         \* per batch id ever created: who uploaded which file of which
                   \* kind, which applies the user's store held then, and how
                   \* often the batch's rows were written to the store
  provenance,      \* per user and kind: the applies that wrote to the store, in order
  csv,             \* parser on its own: the bytes handed to _parse_csv
  parsed,          \* parser on its own: what _parse_csv returned, once it has
  money,           \* money functions on their own: the argument, and what
                   \* cents_to_euros_str and euros_to_cents made of it so far
  plan,            \* dashboard on its own: a budget, a month, and the planned
                   \* amount once it is computed
  form,            \* budget validation on its own: a Budget object handed to
                   \* validate_budget, or a form posted to create_budget, and
                   \* what became of it
  calls            \* category requests on their own: what each worker thread
                   \* is doing inside _ensure_category, _ensure_subcategory,
                   \* create_category or create_subcategory

vars == <<session, IMPORT_BATCHES, db, next_batch, inflight, resp, history, provenance,
          csv, parsed, money, plan, form, calls>>

EmptyDict == [x \in {} |-> {}]
NoResp == [op |-> "none", sid |-> "", uid |-> 0, kind |-> "", body |-> [result |-> "none"]]
NoCsv == [kind |-> "", content |-> [header |-> <<>>, rows |-> <<>>]]
NoMoney == [stage |-> "none", origin |-> "", cents |-> <<>>, text |-> None, raised |-> "",
            neg |-> FALSE, out |-> <<>>]
NoForm == [stage |-> "none", origin |-> "", f |-> <<>>, b |-> <<>>, accepted |-> FALSE,
           status |-> 0, error |-> ""]
NoCall == [op |-> "", uid |-> 0, name |-> "", category_id |-> 0, pc |-> "idle",
           existed |-> FALSE, wrote |-> FALSE, id |-> 0, error |-> ""]
NoCalls == [call |-> [w \in Workers |-> NoCall], made |-> 0]
NoBudget == [is_recurring |-> FALSE, one_time_date |-> None, start_date |-> None,
             end_date |-> None, repeat_unit |-> None, repeat_interval |-> None,
             weekday |-> None, amount_cents |-> 0]
NoPlan == [stage |-> "none", b |-> NoBudget, year |-> 0, month |-> 0, ms |-> None,
           me |-> None, amt |-> 0]

\* The application after start-up: nobody signed in, empty tables, no batch.
InitApp ==
  /\ session = [s \in Sessions |-> [user_id |-> 0, batch |-> [k \in Kinds |-> 0]]]
  /\ IMPORT_BATCHES = [k \in Kinds |-> EmptyDict]
  /\ db = [Budget |-> {}, Transaction |-> {}, Category |-> {}, Subcategory |-> {},
           next |-> [Budget |-> 1, Transaction |-> 1, Category |-> 1, Subcategory |-> 1]]
  /\ next_batch = 1
  /\ inflight = EmptyBag
  /\ resp = NoResp
  /\ history = <<>>
  /\ provenance = [u \in Users |-> [k \in Kinds |-> <<>>]]

Init ==
  /\ InitApp
  /\ csv = NoCsv
  /\ parsed = None
  /\ money = NoMoney
  /\ plan = NoPlan
  /\ form = NoForm
  /\ calls = NoCalls

(***************************************************************************)
(* Store helpers                                                           *)
(***************************************************************************)

Table(kind) == IF kind = "budget" THEN "Budget" ELSE "Transaction"

\* select(...).where(user_id == uid).all() on the table of a kind
RecordsOf(d, kind, uid) == {x \in d[Table(kind)] : x.user_id = uid}

MinId(S) == CHOOSE x \in S : \A y \in S : x.id <= y.id

\* _ensure_category(db, uid, name): [db, id].  The lookup is by exact name;
\* a missing category is added (and committed) under name.strip().
ensure_category(d, uid, name) ==
  LET found == {c \in d.Category : c.user_id = uid /\ c.name = name}
      id == d.next.Category
  IN IF found # {} THEN [db |-> d, id |-> MinId(found).id]
     ELSE [db |-> [d EXCEPT !.Category = @ \cup {[id |-> id, user_id |-> uid, name |-> Strip(name)]},
                            !.next.Category = @ + 1],
           id |-> id]

\* _ensure_subcategory(db, uid, category_id, name): [db, id]
ensure_subcategory(d, uid, category_id, name) ==
  LET found == {s \in d.Subcategory :
                  s.user_id = uid /\ s.category_id = category_id /\ s.name = name}
      id == d.next.Subcategory
  IN IF found # {} THEN [db |-> d, id |-> MinId(found).id]
     ELSE [db |-> [d EXCEPT !.Subcategory = @ \cup {[id |-> id, user_id |-> uid,
                                                     category_id |-> category_id,
                                                     name |-> Strip(name)]},
                            !.next.Subcategory = @ + 1],
           id |-> id]

\* Budget(...) of budgets.py 667-686, before its primary key is assigned.
NewBudget(uid, r, cat_id, sub_id) ==
  [user_id |-> uid, type |-> r.type, category_id |-> cat_id, subcategory_id |-> sub_id,
   amount_cents |-> r.amount_cents, currency |-> Upper(r.currency),
   is_recurring |-> r.is_recurring, one_time_date |-> r.one_time_date,
   repeat_unit |-> r.repeat_unit, repeat_interval |-> r.repeat_interval,
   weekday |-> r.weekday, day_of_month |-> r.day_of_month,
   start_date |-> r.start_date, end_date |-> r.end_date, note |-> r.note]

\* Transaction(...) of transactions.py 609-619.
NewTransaction(uid, r, cat_id, sub_id) ==
  [user_id |-> uid, date |-> r.date, type |-> r.type, category_id |-> cat_id,
   subcategory_id |-> sub_id, description |-> r.description,
   amount_cents |-> r.amount_cents, currency |-> Upper(r.currency), note |-> r.note]

WithId(rec, id) == [f \in DOMAIN rec \cup {"id"} |-> IF f = "id" THEN id ELSE rec[f]]

\* One turn of the insert loop (budgets.py 660-693, transactions.py 602-626):
\* the categories are ensured first, then a row failing validation is skipped.
InsertRow(d, kind, uid, r) ==
  LET c == ensure_category(d, uid, r.category)
      s == IF r.subcategory # None
             THEN ensure_subcategory(c.db, uid, c.id, r.subcategory[1])
             ELSE [db |-> c.db, id |-> 0]
      sub_id == IF r.subcategory # None THEN Some(s.id) ELSE None
      rec == IF kind = "budget" THEN NewBudget(uid, r, c.id, sub_id)
             ELSE NewTransaction(uid, r, c.id, sub_id)
      valid == IF kind = "budget" THEN validate_budget(rec) ELSE validate_transaction(rec)
      t == Table(kind)
  IN IF valid
       THEN [s.db EXCEPT ![t] = @ \cup {WithId(rec, s.db.next[t])}, !.next[t] = @ + 1]
       ELSE s.db

\* An insert loop that a row failing the validation ends.
RECURSIVE InsertRows_UntilInvalid(_, _, _, _, _)
InsertRows_UntilInvalid(d, kind, uid, rows, i) ==
  IF i > Len(rows) THEN d
  ELSE IF InsertRow(d, kind, uid, rows[i]) = ensure_category(d, uid, rows[i].category).db
    THEN d
  ELSE InsertRows_UntilInvalid(InsertRow(d, kind, uid, rows[i]), kind, uid, rows, i + 1)

RECURSIVE InsertRows(_, _, _, _, _)
InsertRows(d, kind, uid, rows, i) ==
  IF i > Len(rows) THEN d
  ELSE InsertRows(InsertRow(d, kind, uid, rows[i]), kind, uid, rows, i + 1)

sig_from_row(kind, r) ==
  IF kind = "budget" THEN budgets_sig_from_row(r) ELSE transactions_sig_from_row(r)

\* The signature the upload computes for a stored record: the category name is
\* looked up among the user's categories ("#<id>" when it is gone), the
\* subcategory name among the user's subcategories (None when it is gone).
ExistingSig(d, kind, uid, x) ==
  LET cats == {c \in d.Category : c.user_id = uid /\ c.id = x.category_id}
      subs == {s \in d.Subcategory : s.user_id = uid /\ Some(s.id) = x.subcategory_id}
      cat_name == IF cats = {} THEN "#" \o ToString(x.category_id)
                  ELSE (CHOOSE c \in cats : TRUE).name
      sub_name == IF x.subcategory_id = None \/ x.subcategory_id = Some(0) \/ subs = {}
                  THEN None ELSE Some((CHOOSE s \in subs : TRUE).name)
  IN IF kind = "budget" THEN budgets_sig_from_existing(x, cat_name, sub_name)
     ELSE transactions_sig_from_existing(x, cat_name, sub_name)

\* An index over the records of every user, each with the names its owner
\* gave its category and subcategory.
ExistingSigs_EveryUser(d, kind, uid) ==
  LET recs == d[Table(kind)]
  IN [sig \in {ExistingSig(d, kind, x.user_id, x) : x \in recs} |->
        {x.id : x \in {y \in recs : ExistingSig(d, kind, y.user_id, y) = sig}}]

\* existing_sigs of the upload: signature -> ids of the user's records with it.
ExistingSigs(d, kind, uid) ==
  LET recs == RecordsOf(d, kind, uid)
  IN [sig \in {ExistingSig(d, kind, uid, x) : x \in recs} |->
        {x.id : x \in {y \in recs : ExistingSig(d, kind, uid, y) = sig}}]

\* Duplicate flags that stop at the first flagged row.
Duplicates_FirstOnly(kind, valid_rows, existing_sigs) ==
  LET flagged == {i \in 1..Len(valid_rows) :
                    sig_from_row(kind, valid_rows[i]) \in DOMAIN existing_sigs}
  IN {i \in flagged : \A j \in flagged : i <= j}

\* duplicates_idx of the upload (positions counted from 1 here).
Duplicates(kind, valid_rows, existing_sigs) ==
  {i \in 1..Len(valid_rows) : sig_from_row(kind, valid_rows[i]) \in DOMAIN existing_sigs}

\* ids_to_delete that takes one id per signature, not all of them.
IdsToDelete_OnePerSig(kind, valid_rows, existing_sigs) ==
  {CHOOSE id \in existing_sigs[sig_from_row(kind, valid_rows[i])] :
     \A other \in existing_sigs[sig_from_row(kind, valid_rows[i])] : id <= other :
       i \in {j \in 1..Len(valid_rows) :
                sig_from_row(kind, valid_rows[j]) \in DOMAIN existing_sigs}}

\* ids_to_delete of apply/replace.
IdsToDelete(kind, valid_rows, existing_sigs) ==
  UNION {existing_sigs[sig_from_row(kind, valid_rows[i])] :
           i \in {j \in 1..Len(valid_rows) :
                    sig_from_row(kind, valid_rows[j]) \in DOMAIN existing_sigs}}

\* The delete of apply/replace: the user's records with one of the ids.
DeleteIds(d, kind, uid, ids) ==
  [d EXCEPT ![Table(kind)] = {x \in @ : ~(x.user_id = uid /\ x.id \in ids)}]

DictPut(dict, k, v) == [x \in DOMAIN dict \cup {k} |-> IF x = k THEN v ELSE dict[x]]
DictPop(dict, k) == [x \in DOMAIN dict \ {k} |-> dict[x]]

(***************************************************************************)
(* Handlers                                                                *)
(***************************************************************************)

\* POST /login and POST /signup end in request.session["user_id"] = user.id;
\* the batch ids the session carries stay.
Login(s, u) ==
  /\ session[s].user_id # u
  /\ session' = [session EXCEPT ![s].user_id = u]
  /\ UNCHANGED <<IMPORT_BATCHES, db, next_batch, inflight, resp, history, provenance,
                 csv, parsed, money, plan, form, calls>>

\* POST /logout: request.session.pop("user_id", None); the batch ids stay.
Logout(s) ==
  /\ session[s].user_id # 0
  /\ session' = [session EXCEPT ![s].user_id = 0]
  /\ UNCHANGED <<IMPORT_BATCHES, db, next_batch, inflight, resp, history, provenance,
                 csv, parsed, money, plan, form, calls>>

\* Rows of the review page's preview table.
PreviewLimit == 25

\* The response of POST /budget/import, POST /transaction/import, p being the
\* parse of the file: the redirect to the login form, the form again with an
\* error (400), an unhandled exception (500), or the redirect to the review
\* page.
upload_response(s, p, is_csv_name) ==
  IF session[s].user_id = 0 THEN [result |-> "login"]
  ELSE IF ~is_csv_name THEN [result |-> "not_csv"]
  ELSE IF p.crashed THEN [result |-> "error"]
  ELSE [result |-> "review"]

\* The batch the upload stores (budgets.py 548-579).
NewBatch(kind, uid, p, existing_sigs) ==
  [uid |-> uid,
   valid_rows |-> p.valid,
   invalid_rows |-> p.invalid,
   duplicates_idx |-> Duplicates(kind, p.valid, existing_sigs),
   existing_sigs |-> existing_sigs]

\* The handler, p being what _parse_csv returns for the file.
UploadParsed(s, kind, file, is_csv_name, p) ==
  LET uid == session[s].user_id
  IN /\ next_batch <= MaxBatches
     /\ resp' = [op |-> "upload", sid |-> s, uid |-> uid, kind |-> kind,
                 body |-> upload_response(s, p, is_csv_name)]
     /\ IF upload_response(s, p, is_csv_name).result = "review"
          THEN /\ IMPORT_BATCHES' = [IMPORT_BATCHES EXCEPT ![kind] =
                                       DictPut(@, next_batch,
                                               NewBatch(kind, uid, p,
                                                        ExistingSigs(db, kind, uid)))]
               /\ session' = [session EXCEPT ![s].batch[kind] = next_batch]
               /\ next_batch' = next_batch + 1
               /\ history' = Append(history, [uid |-> uid, kind |-> kind, file |-> file,
                                              before |-> provenance[uid][kind],
                                              applied |-> 0])
          ELSE UNCHANGED <<session, IMPORT_BATCHES, next_batch, history>>
     /\ UNCHANGED <<db, inflight, provenance, csv, parsed, money, plan, form, calls>>

\* POST /budget/import, POST /transaction/import
Upload(s, kind, file, is_csv_name) ==
  UploadParsed(s, kind, file, is_csv_name, Parsed(file))

\* A batch check that goes by the id alone: the batch's uid is not compared.
BatchFound_ById(s, kind) ==
  /\ session[s].batch[kind] # 0
  /\ session[s].batch[kind] \in DOMAIN IMPORT_BATCHES[kind]

\* batch = _IMPORT_BATCHES.get(batch_id) if batch_id else None;
\* not (not batch or batch.get("uid") != uid)
BatchFound(s, kind) ==
  /\ session[s].batch[kind] # 0
  /\ session[s].batch[kind] \in DOMAIN IMPORT_BATCHES[kind]
  /\ IMPORT_BATCHES[kind][session[s].batch[kind]].uid = session[s].user_id

\* The response of GET /budget/import/review, GET /transaction/import/review:
\* on the page, the three counts and the duplicate flags of the preview rows.
review_response(s, kind) ==
  LET batch_id == session[s].batch[kind]
      batch == IMPORT_BATCHES[kind][batch_id]
      shown == IF Len(batch.valid_rows) < PreviewLimit THEN Len(batch.valid_rows)
               ELSE PreviewLimit
  IN IF session[s].user_id = 0 THEN [result |-> "login"]
     ELSE IF ~BatchFound(s, kind) THEN [result |-> "not_found"]
     ELSE [result |-> "page",
           batch_id |-> batch_id,
           valid_count |-> Len(batch.valid_rows),
           invalid_count |-> Len(batch.invalid_rows),
           dup_count |-> Cardinality(batch.duplicates_idx),
           preview |-> [i \in 1..shown |-> i \in batch.duplicates_idx]]

\* GET /budget/import/review, GET /transaction/import/review: the page is
\* rendered from the batch; nothing is written.
Review(s, kind) ==
  /\ resp' = [op |-> "review", sid |-> s, uid |-> session[s].user_id, kind |-> kind,
              body |-> review_response(s, kind)]
  /\ UNCHANGED <<session, IMPORT_BATCHES, db, next_batch, inflight, history, provenance,
                 csv, parsed, money, plan, form, calls>>

Actions == {"keep", "replace", "other"}

\* The checks of apply with the action looked at before the batch.
apply_check_ActionFirst(s, kind, action) ==
  IF session[s].user_id = 0 THEN "login"
  ELSE IF action \notin {"keep", "replace"} THEN "review"
  ELSE IF ~BatchFound(s, kind) THEN "not_found"
  ELSE "go"

\* The outcome of the checks of POST .../import/apply (budgets.py 629-641):
\* a redirect to the login form, to the upload form ("batch not found"), to
\* the review page (unknown action), or "go": the handler goes on.
apply_check(s, kind, action) ==
  IF session[s].user_id = 0 THEN "login"
  ELSE IF ~BatchFound(s, kind) THEN "not_found"
  ELSE IF action \notin {"keep", "replace"} THEN "review"
  ELSE "go"

\* The locals of an apply request that passed the checks; session is the
\* cookie the request came with.
ApplyLocals(s, kind, action) ==
  LET batch_id == session[s].batch[kind]
      batch == IMPORT_BATCHES[kind][batch_id]
  IN [pc |-> "store", sid |-> s, kind |-> kind, uid |-> session[s].user_id,
      action |-> action, batch_id |-> batch_id, session |-> session[s],
      valid_rows |-> batch["valid_rows"], existing_sigs |-> batch["existing_sigs"]]

\* POST /budget/import/apply, POST /transaction/import/apply, up to the
\* checks: a request that fails one is answered at once, one that passes
\* them holds the batch's rows and index.
ApplyBegin(s, kind, action) ==
  /\ BagCardinality(inflight) < Cardinality(Workers)
  /\ IF apply_check(s, kind, action) = "go"
       THEN /\ inflight' = inflight (+) SetToBag({ApplyLocals(s, kind, action)})
            /\ UNCHANGED resp
       ELSE /\ resp' = [op |-> "apply", sid |-> s, uid |-> session[s].user_id,
                        kind |-> kind,
                        body |-> [result |-> apply_check(s, kind, action)]]
            /\ UNCHANGED inflight
  /\ UNCHANGED <<session, IMPORT_BATCHES, db, next_batch, history, provenance, csv, parsed, money, plan, form, calls>>

\* The store after the store part of apply (budgets.py 643-695): the delete
\* of replace, then the insert loop and its commit.
ApplyWrites(d, q) ==
  InsertRows(IF q.action = "replace"
               THEN DeleteIds(d, q.kind, q.uid,
                              IdsToDelete(q.kind, q.valid_rows, q.existing_sigs))
               ELSE d,
             q.kind, q.uid, q.valid_rows, 1)

ApplyStore(q) ==
  /\ q.pc = "store"
  /\ db' = ApplyWrites(db, q)
  /\ inflight' = (inflight (-) SetToBag({q})) (+) SetToBag({[q EXCEPT !.pc = "cleanup"]})
  /\ history' = [history EXCEPT ![q.batch_id].applied = @ + 1]
  /\ provenance' = [provenance EXCEPT ![q.uid][q.kind] =
                      Append(@, [batch_id |-> q.batch_id, action |-> q.action])]
  /\ UNCHANGED <<session, IMPORT_BATCHES, next_batch, resp, csv, parsed, money, plan, form, calls>>

\* A cleanup that pops the batch from the batch store but leaves its id in
\* the session.
ApplyCleanup_KeepsId(q) ==
  /\ q.pc = "cleanup"
  /\ session' = [session EXCEPT ![q.sid] = q.session]
  /\ IMPORT_BATCHES' = [IMPORT_BATCHES EXCEPT ![q.kind] = DictPop(@, q.batch_id)]
  /\ inflight' = inflight (-) SetToBag({q})
  /\ resp' = [op |-> "apply", sid |-> q.sid, uid |-> q.uid, kind |-> q.kind,
              body |-> [result |-> "list"]]
  /\ UNCHANGED <<db, next_batch, history, provenance, csv, parsed, money, plan, form, calls>>

\* The cleanup of apply (budgets.py 697-701) and its response, the redirect
\* to the list page: the batch id is popped from the session the request
\* came with, which the response's cookie then carries to the client.
ApplyCleanup(q) ==
  /\ q.pc = "cleanup"
  /\ session' = [session EXCEPT ![q.sid] = [q.session EXCEPT !.batch[q.kind] = 0]]
  /\ IMPORT_BATCHES' = [IMPORT_BATCHES EXCEPT ![q.kind] = DictPop(@, q.batch_id)]
  /\ inflight' = inflight (-) SetToBag({q})
  /\ resp' = [op |-> "apply", sid |-> q.sid, uid |-> q.uid, kind |-> q.kind,
              body |-> [result |-> "list"]]
  /\ UNCHANGED <<db, next_batch, history, provenance, csv, parsed, money, plan, form, calls>>

Next ==
  \/ \E s \in Sessions, u \in Users : Login(s, u)
  \/ \E s \in Sessions : Logout(s)
  \/ \E s \in Sessions, kind \in Kinds : \E file \in Files(kind), c \in BOOLEAN :
       Upload(s, kind, file, c)
  \/ \E s \in Sessions, kind \in Kinds : Review(s, kind)
  \/ \E s \in Sessions, kind \in Kinds, a \in Actions : ApplyBegin(s, kind, a)
  \/ \E q \in BagToSet(inflight) : ApplyStore(q)
  \/ \E q \in BagToSet(inflight) : ApplyCleanup(q)

Spec == Init /\ [][Next]_vars

(***************************************************************************)
(* The parser on its own: _parse_csv applied to one upload                 *)
(***************************************************************************)

\* Data lines of an upload handed to the parser alone.
MaxRows == 2

\* A transaction line with one field more than the header has.
LineTooLong == <<"2025-03-05", "expense", "Food", "", "Lunch", "12.5", "EUR", "n1", "extra">>

\* The monthly rent one comma short: its note lands in end_date.
LineRentShort ==
  <<"expense", "Housing", "Rent", "900.00", "EUR", "recurring", "", "1", "month", "", "1",
    "2025-01-01", "Monthly rent">>
\* An end date, the note in start_date.
LineNoteInStart ==
  <<"expense", "Housing", "Rent", "900.00", "EUR", "recurring", "", "1", "month", "", "1",
    "Rent again", "2025-03-05", "">>
\* A note, and an end_date that is no date.
LineNoteAndBadEnd ==
  <<"expense", "Housing", "Rent", "900.00", "EUR", "recurring", "", "1", "month", "", "1",
    "2025-01-01", "Monthly rent", "n1">>

Without(header, column) == SelectSeq(header, LAMBDA h : h # column)

\* Header lines: the full one, none (an empty file or a blank first line), the
\* required columns alone in another spelling, and the full one less a column.
Headers(kind) ==
  IF kind = "budget"
    THEN {BudgetHeader, <<>>, <<" type", "Category", "Amount", "currency">>}
         \cup {Without(BudgetHeader, c) : c \in BudgetRequired \cup {"note"}}
    ELSE {TransactionHeader, <<>>}
         \cup {Without(TransactionHeader, c) : c \in TransactionRequired \cup {"note"}}

\* The fields of a budget line that a defect can sit in, and the one-time
\* budget line with a defect in each field of D: a type that is neither
\* income nor expense, no category, an amount that is no number, a schedule
\* that is neither one-time nor recurring.
BudgetDefects == {"type", "category", "amount", "schedule"}

DefectiveBudgetLine(D) ==
  <<IF "type" \in D THEN "transfer" ELSE "expense",
    IF "category" \in D THEN "" ELSE "Insurance",
    "",
    IF "amount" \in D THEN "abc" ELSE "120.50",
    "EUR",
    IF "schedule" \in D THEN "sometimes" ELSE "one-time",
    "2025-02-01", "", "", "", "", "", "", "">>

\* The same for a transaction line: a date that is no calendar date, a bad
\* type, no category, no description, an amount that is no number.
TransactionDefects == {"date", "type", "category", "description", "amount"}

DefectiveTransactionLine(D) ==
  <<IF "date" \in D THEN "2025-02-30" ELSE "2025-03-05",
    IF "type" \in D THEN "transfer" ELSE "expense",
    IF "category" \in D THEN "" ELSE "Food",
    "",
    IF "description" \in D THEN "" ELSE "Lunch",
    IF "amount" \in D THEN "abc" ELSE "12.5",
    "EUR", "">>

DefectiveLines(kind) ==
  IF kind = "budget"
    THEN {DefectiveBudgetLine(D) : D \in (SUBSET BudgetDefects) \ {{}}}
    ELSE {DefectiveTransactionLine(D) : D \in (SUBSET TransactionDefects) \ {{}}}

\* Data lines; <<>> is a blank line.
Lines(kind) ==
  (IF kind = "budget"
     THEN {LineRent, LineInsurance, LineEveryZero, LineNoCategory, LineRentShort,
           LineNoteInStart, LineNoteAndBadEnd, <<>>}
     ELSE {LineLunch, LineFree, LineBadDate, LineTooLong, <<>>})
  \cup DefectiveLines(kind)

SeqsUpTo(S, n) == UNION {[1..m -> S] : m \in 0..n}

CsvInputs ==
  {[kind |-> kind, content |-> [header |-> h, rows |-> rows]] :
     kind \in Kinds, h \in Headers("budget") \cup Headers("transaction"),
     rows \in SeqsUpTo(Lines("budget") \cup Lines("transaction"), MaxRows)}

\* An upload of one kind, its header and lines being of that kind.
InitParse ==
  /\ InitApp
  /\ form = NoForm
  /\ calls = NoCalls
  /\ csv \in {c \in CsvInputs :
                /\ c.content.header \in Headers(c.kind)
                /\ \A i \in 1..Len(c.content.rows) : c.content.rows[i] \in Lines(c.kind)}
  /\ parsed = None
  /\ money = NoMoney
  /\ plan = NoPlan

\* valid_rows, invalid_rows = _parse_csv(data)
Parse ==
  /\ parsed = None
  /\ parsed' = Some(parse_csv(csv.kind, csv.content))
  /\ UNCHANGED <<session, IMPORT_BATCHES, db, next_batch, inflight, resp, history,
                 provenance, csv, money, plan, form, calls>>

NextParse == Parse

SpecParse == InitParse /\ [][NextParse]_vars

(***************************************************************************)
(* Claims C1 - C4: the batch store under concurrent and foreign requests   *)
(***************************************************************************)

\* C1, as stated: under every interleaving of the apply requests that
\* reference one batch id, the batch's valid rows are written to the store
\* at most once.
C1_AppliedAtMostOnce == \A b \in DOMAIN history : history[b].applied <= 1

\* The session of a signed-in user U carries, for the kind, the id of a
\* batch that another user V created.
Foreign(s, kind) ==
  /\ session[s].user_id # 0
  /\ session[s].batch[kind] \in DOMAIN history
  /\ history[session[s].batch[kind]].uid # session[s].user_id

\* C2: a review or apply request of a user U whose session carries the id
\* of a batch that another user V created is answered "batch not found": it
\* shows none of the batch's rows, takes no hold of them, removes no batch
\* and changes no table.
C2_OwnershipByUid ==
  [][\A s \in Sessions, kind \in Kinds :
       Foreign(s, kind) =>
         /\ Review(s, kind) => resp'.body = [result |-> "not_found"]
         /\ \A a \in Actions :
              ApplyBegin(s, kind, a) =>
                /\ resp'.body = [result |-> "not_found"]
                /\ UNCHANGED <<db, IMPORT_BATCHES, inflight>>]_vars

\* C2, its case: user U, whose session carries the id of V's batch, still in
\* the batch store, has asked to apply it and was answered "batch not found".
C2_Witness ==
  \E s \in Sessions, kind \in Kinds :
    /\ Foreign(s, kind)
    /\ session[s].batch[kind] \in DOMAIN IMPORT_BATCHES[kind]
    /\ resp = [op |-> "apply", sid |-> s, uid |-> session[s].user_id, kind |-> kind,
               body |-> [result |-> "not_found"]]

\* C3: an apply request of a signed-in user whose session holds no batch id
\* of the kind, or an id that is no key of the batch store, changes neither
\* the tables nor the batch store, starts no work, and is answered with the
\* redirect to the upload form.
C3_NoBatchNoAction ==
  [][\A s \in Sessions, kind \in Kinds, a \in Actions :
       (/\ session[s].user_id # 0
        /\ \/ session[s].batch[kind] = 0
           \/ session[s].batch[kind] \notin DOMAIN IMPORT_BATCHES[kind]
        /\ ApplyBegin(s, kind, a))
       => /\ UNCHANGED <<db, IMPORT_BATCHES, inflight, session>>
          /\ resp' = [op |-> "apply", sid |-> s, uid |-> session[s].user_id,
                      kind |-> kind, body |-> [result |-> "not_found"]]]_vars

\* C3, its case: the session of a signed-in user carries a batch id that is
\* no key of the batch store any more, and the user's apply request was
\* answered with the redirect to the upload form.
C3_Witness ==
  \E s \in Sessions, kind \in Kinds :
    /\ session[s].user_id # 0
    /\ session[s].batch[kind] # 0
    /\ session[s].batch[kind] \notin DOMAIN IMPORT_BATCHES[kind]
    /\ resp = [op |-> "apply", sid |-> s, uid |-> session[s].user_id, kind |-> kind,
               body |-> [result |-> "not_found"]]

\* C4: a batch enters the batch store only by an upload, under an id never
\* used before; while it is there no request, review included, changes it;
\* it leaves the store only by the cleanup of an apply request with action
\* keep or replace that holds it, and right after that step its id is in
\* neither the batch store nor a session.
C4_WrittenOnceRemovedOnce ==
  [][\A kind \in Kinds :
       LET old == DOMAIN IMPORT_BATCHES[kind]
           new == DOMAIN IMPORT_BATCHES'[kind]
       IN /\ \A b \in old \cap new : IMPORT_BATCHES'[kind][b] = IMPORT_BATCHES[kind][b]
          /\ \A b \in new \ old :
               /\ b \notin DOMAIN history
               /\ new \ old = {b}
               /\ resp'.op = "upload" /\ resp'.kind = kind
               /\ IMPORT_BATCHES'[kind][b].uid = resp'.uid
          /\ \A b \in old \ new :
               /\ \E q \in BagToSet(inflight) :
                    /\ q.kind = kind /\ q.batch_id = b
                    /\ q.action \in {"keep", "replace"}
                    /\ ApplyCleanup(q)
               /\ \A s \in Sessions : session'[s].batch[kind] # b
          /\ \A s \in Sessions : Review(s, kind) => UNCHANGED IMPORT_BATCHES]_vars

\* C4, its case: a batch was uploaded, its rows were written to the store by
\* an apply, and that apply's cleanup has just removed it: its id is in
\* neither the batch store nor a session.
C4_Witness ==
  \E b \in DOMAIN history :
    /\ history[b].applied >= 1
    /\ b \notin DOMAIN IMPORT_BATCHES[history[b].kind]
    /\ \A s \in Sessions : session[s].batch[history[b].kind] # b
    /\ resp.op = "apply" /\ resp.kind = history[b].kind /\ resp.body.result = "list"

(***************************************************************************)
(* Claims C5 - C9: keep, replace and the duplicate flags                   *)
(***************************************************************************)

\* The rows of a batch as a set of positions, and their signatures.
Sigs(kind, rows) == {sig_from_row(kind, rows[i]) : i \in 1..Len(rows)}

\* The user's stored records with a signature.
Copies(d, kind, uid, sig) ==
  {x \in RecordsOf(d, kind, uid) : ExistingSig(d, kind, uid, x) = sig}

\* The row passes the validation apply runs on the record built from it.
Insertable(kind, r) ==
  IF kind = "budget" THEN validate_budget(NewBudget(0, r, 1, None))
  ELSE validate_transaction(NewTransaction(0, r, 1, None))

\* C5, as stated: apply with action keep deletes no record of the user and
\* makes the number of the user's stored records grow by exactly the number
\* of valid rows of the batch.
C5_KeepInsertsEveryValidRow ==
  [][\A q \in BagToSet(inflight) :
       (q.action = "keep" /\ ApplyStore(q)) =>
         /\ RecordsOf(db, q.kind, q.uid) \subseteq RecordsOf(db', q.kind, q.uid)
         /\ Cardinality(RecordsOf(db', q.kind, q.uid))
              = Cardinality(RecordsOf(db, q.kind, q.uid)) + Len(q.valid_rows)]_vars

\* C6, as stated: apply with action replace deletes every record of the
\* user whose signature is, at that moment, the signature of a valid row of
\* the batch, leaves the user's other records as they are, and inserts one
\* record per valid row.
C6_ReplaceDeletesMatchesInsertsAll ==
  [][\A q \in BagToSet(inflight) :
       (q.action = "replace" /\ ApplyStore(q)) =>
         LET old == RecordsOf(db, q.kind, q.uid)
             now == RecordsOf(db', q.kind, q.uid)
             matching == {x \in old : ExistingSig(db, q.kind, q.uid, x)
                                        \in Sigs(q.kind, q.valid_rows)}
         IN /\ matching \cap now = {}
            /\ old \ matching \subseteq now
            /\ Cardinality(now \ old) = Len(q.valid_rows)]_vars

\* C7, as stated: when the applies before it were keeps, all of them made
\* before the batch was uploaded, an apply with action replace leaves
\* exactly 1 stored record for every signature of the batch's valid rows
\* that had N >= 1 stored copies.
C7_ReplaceLeavesOne ==
  [][\A q \in BagToSet(inflight) :
       (/\ q.action = "replace"
        /\ ApplyStore(q)
        /\ history[q.batch_id].before = provenance[q.uid][q.kind]
        /\ \A i \in DOMAIN provenance[q.uid][q.kind] :
             provenance[q.uid][q.kind][i].action = "keep")
       => \A sig \in Sigs(q.kind, q.valid_rows) :
            Copies(db, q.kind, q.uid, sig) # {}
              => Cardinality(Copies(db', q.kind, q.uid, sig)) = 1]_vars

\* C7, amended: after an apply with action replace, for every signature of
\* the batch's valid rows, none of the records that the batch's index lists
\* under it is stored any more, and the number of stored records with it is
\* the number of the batch's valid rows with it that pass the validation of
\* apply, plus the number of records with it that the index does not list.
C7_ReplaceLeavesBatchCopies ==
  [][\A q \in BagToSet(inflight) :
       (q.action = "replace" /\ ApplyStore(q)) =>
         \A sig \in Sigs(q.kind, q.valid_rows) :
           LET listed == IF sig \in DOMAIN q.existing_sigs THEN q.existing_sigs[sig]
                         ELSE {}
               unlisted == {x \in Copies(db, q.kind, q.uid, sig) : x.id \notin listed}
               inserted == {i \in 1..Len(q.valid_rows) :
                              /\ sig_from_row(q.kind, q.valid_rows[i]) = sig
                              /\ Insertable(q.kind, q.valid_rows[i])}
           IN /\ \A x \in RecordsOf(db', q.kind, q.uid) : x.id \notin listed
              /\ unlisted \subseteq RecordsOf(db', q.kind, q.uid)
              /\ Cardinality(Copies(db', q.kind, q.uid, sig))
                   = Cardinality(inserted) + Cardinality(unlisted)]_vars

\* C7, its case: a file was applied with keep to an empty store, uploaded
\* again, found to hold duplicates, and applied with replace; the batch is
\* not yet cleaned up, and the store holds two records with the signature of
\* one of its flagged rows.
C7_Witness ==
  \E kind \in Kinds : \E b \in DOMAIN IMPORT_BATCHES[kind] :
    LET uid == history[b].uid
    IN /\ Len(provenance[uid][kind]) = 2
       /\ provenance[uid][kind][1].action = "keep"
       /\ provenance[uid][kind][2] = [batch_id |-> b, action |-> "replace"]
       /\ history[b].before = <<provenance[uid][kind][1]>>
       /\ history[b].applied = 1
       /\ IMPORT_BATCHES[kind][b].duplicates_idx # {}
       /\ \E i \in IMPORT_BATCHES[kind][b].duplicates_idx :
            Cardinality(Copies(db, kind, uid,
                               sig_from_row(kind, IMPORT_BATCHES[kind][b].valid_rows[i]))) >= 2

\* C8, as stated: an upload made while the user's store is empty reports 0
\* duplicates; the upload of the same file made after that file was applied
\* with keep to the empty store, and nothing else was, reports as many
\* duplicates as the file has valid rows.
C8_ReuploadFlagsEveryRow ==
  \A kind \in Kinds : \A b \in DOMAIN IMPORT_BATCHES[kind] :
    LET h == history[b]
        batch == IMPORT_BATCHES[kind][b]
    IN /\ h.before = <<>> => batch.duplicates_idx = {}
       /\ (/\ Len(h.before) = 1
           /\ h.before[1].action = "keep"
           /\ history[h.before[1].batch_id].file = h.file
           /\ history[h.before[1].batch_id].before = <<>>)
          => Cardinality(batch.duplicates_idx) = Len(batch.valid_rows)

\* The store with every note blanked and every record under another id.
Scrub(d) ==
  [d EXCEPT
     !.Budget = {[x EXCEPT !.id = x.id + d.next.Budget, !.note = None] : x \in d.Budget},
     !.Transaction = {[x EXCEPT !.id = x.id + d.next.Transaction, !.note = None] :
                        x \in d.Transaction}]

\* The rows with every note blanked.
ScrubRows(rows) == [i \in 1..Len(rows) |-> [rows[i] EXCEPT !.note = None]]

\* C9: the upload flags a valid row exactly when its signature is the
\* signature of a record the user has stored at that moment; the flags are
\* those the same rows and records get with all notes blanked and all record
\* ids changed; and the duplicate count a review page reports is the number
\* of flagged rows of its batch.
C9_FlagIffSignatureStored ==
  [][/\ \A kind \in Kinds :
          \A b \in DOMAIN IMPORT_BATCHES'[kind] \ DOMAIN IMPORT_BATCHES[kind] :
            LET batch == IMPORT_BATCHES'[kind][b]
                rows == batch.valid_rows
            IN /\ \A i \in 1..Len(rows) :
                    i \in batch.duplicates_idx
                      <=> Copies(db, kind, batch.uid, sig_from_row(kind, rows[i])) # {}
               /\ batch.duplicates_idx
                    = Duplicates(kind, ScrubRows(rows),
                                 ExistingSigs(Scrub(db), kind, batch.uid))
     /\ (resp'.op = "review" /\ resp'.body.result = "page" /\ resp' # resp)
          => resp'.body.dup_count
               = Cardinality({i \in 1..resp'.body.valid_count :
                                i \in IMPORT_BATCHES[resp'.kind][resp'.body.batch_id].duplicates_idx})
    ]_vars

\* C9, its case: a review page reports the duplicates of a batch of which
\* one row is flagged, its note differing from the note of the stored record
\* with its signature, and another row is not.
C9_Witness ==
  /\ resp.op = "review"
  /\ resp.body.result = "page"
  /\ resp.body.dup_count >= 1
  /\ resp.body.batch_id \in DOMAIN IMPORT_BATCHES[resp.kind]
  /\ LET batch == IMPORT_BATCHES[resp.kind][resp.body.batch_id]
     IN /\ \E i \in batch.duplicates_idx :
             \E x \in Copies(db, resp.kind, batch.uid,
                             sig_from_row(resp.kind, batch.valid_rows[i])) :
               x.note # batch.valid_rows[i].note
        /\ \E j \in 1..Len(batch.valid_rows) : j \notin batch.duplicates_idx

(***************************************************************************)
(* Claim C10: the header check of the parser                               *)
(***************************************************************************)

\* The header names the column, in any case and with or without outer blanks.
HasColumn(header, column) ==
  \E i \in 1..Len(header) : Lower(Strip(header[i])) = column

\* C10: when the header is empty, or lacks one of type, category, amount and
\* currency (of these and date and description, for transactions), the
\* parser returns no valid row and exactly one invalid entry, of row number
\* 0, whatever data lines follow.
C10_BadHeaderFailsBatch ==
  parsed # None =>
    LET header == csv.content.header
        required == IF csv.kind = "budget"
                      THEN {"type", "category", "amount", "currency"}
                      ELSE {"type", "category", "amount", "currency", "date", "description"}
    IN (header = <<>> \/ \E c \in required : ~HasColumn(header, c))
         => /\ ~parsed[1].crashed
            /\ parsed[1].valid = <<>>
            /\ Len(parsed[1].invalid) = 1
            /\ parsed[1].invalid[1].rownum = 0

\* C10, its case: a budget file whose header lacks the amount column alone,
\* followed by a line that is valid under the full header, has been parsed.
C10_Witness ==
  /\ parsed # None
  /\ csv.kind = "budget"
  /\ csv.content.header = Without(BudgetHeader, "amount")
  /\ Len(csv.content.rows) >= 1
  /\ csv.content.rows[1] = LineInsurance

(***************************************************************************)
(* Claims C11 - C15: the row loop of the parser                            *)
(***************************************************************************)

\* The required columns of a kind, as the specification lists them.
Required(kind) ==
  IF kind = "budget" THEN {"type", "category", "amount", "currency"}
  ELSE {"type", "category", "amount", "currency", "date", "description"}

\* The header passes the header check.
Acceptable(kind, header) ==
  header # <<>> /\ \A c \in Required(kind) : HasColumn(header, c)

\* What the parser returns for the header followed by the line alone.
Alone(kind, header, line) == parse_csv(kind, [header |-> header, rows |-> <<line>>])

\* The positions of the data lines (the first data line is position 1, line 2
\* of the file) that are not blank and that the parser rejects.
FailingLines(c) ==
  {i \in 1..Len(c.content.rows) :
     /\ c.content.rows[i] # <<>>
     /\ Alone(c.kind, c.content.header, c.content.rows[i]).invalid # <<>>}

\* C11, as stated: every invalid entry of a data row carries the row's line
\* number in the file, the header being line 1 and blank lines counted, with
\* the error of that row; and every rejected line has its entry.
C11_RowNumberIsLineNumber ==
  (parsed # None /\ Acceptable(csv.kind, csv.content.header) /\ ~parsed[1].crashed) =>
    LET invalid == parsed[1].invalid
        rows == csv.content.rows
    IN /\ {invalid[k].rownum : k \in 1..Len(invalid)} = {i + 1 : i \in FailingLines(csv)}
       /\ \A k \in 1..Len(invalid) :
            LET line == invalid[k].rownum - 1
            IN /\ line \in 1..Len(rows)
               /\ rows[line] # <<>>
               /\ Alone(csv.kind, csv.content.header, rows[line]).invalid # <<>>
               /\ Alone(csv.kind, csv.content.header, rows[line]).invalid[1].error
                    = invalid[k].error

\* C12, as stated: with an acceptable header the parser returns, whatever
\* the data lines are, and every line that is not blank, a line with more
\* fields than the header included, has become one valid row or one invalid
\* entry.
C12_NoRowAbortsParsing ==
  (parsed # None /\ Acceptable(csv.kind, csv.content.header)) =>
    /\ ~parsed[1].crashed
    /\ Len(parsed[1].valid) + Len(parsed[1].invalid) = Len(NonBlank(csv.content.rows))

\* C13: with an acceptable header, when the parser returns, the valid rows
\* and the invalid entries together are at most as many as the data lines;
\* the valid rows are as many as the lines the parser accepts, the invalid
\* entries as many as the lines it rejects, and no line is both.
C13_EachRowCountedOnce ==
  (parsed # None /\ Acceptable(csv.kind, csv.content.header) /\ ~parsed[1].crashed) =>
    LET rows == csv.content.rows
        passing == {i \in 1..Len(rows) :
                      /\ rows[i] # <<>>
                      /\ Alone(csv.kind, csv.content.header, rows[i]).valid # <<>>}
    IN /\ Len(parsed[1].valid) + Len(parsed[1].invalid) <= Len(rows)
       /\ Len(parsed[1].valid) = Cardinality(passing)
       /\ Len(parsed[1].invalid) = Cardinality(FailingLines(csv))
       /\ passing \cap FailingLines(csv) = {}

\* C13, its case: a budget file of an accepted line and a rejected line has
\* been parsed into one valid row and one invalid entry.
C13_Witness ==
  /\ parsed # None
  /\ csv.kind = "budget"
  /\ csv.content.header = BudgetHeader
  /\ csv.content.rows = <<LineRent, LineNoCategory>>
  /\ Len(parsed[1].valid) = 1
  /\ Len(parsed[1].invalid) = 1

\* C14, as stated: every recurring row among the budget parser's valid rows
\* has a repeat interval >= 1 and either a weekday in 0..6 and no day of the
\* month (weekly) or a day of the month in 1..31 and no weekday (monthly,
\* yearly); every one-time row has a date and no recurrence field.
C14_ValidRowsKeepRecurrenceInvariants ==
  (parsed # None /\ csv.kind = "budget") =>
    \A k \in 1..Len(parsed[1].valid) :
      LET r == parsed[1].valid[k]
      IN IF r.is_recurring
           THEN /\ r.repeat_interval # None
                /\ r.repeat_interval[1] >= 1
                /\ r.repeat_unit \in {Some("weekly"), Some("monthly"), Some("yearly")}
                /\ IF r.repeat_unit = Some("weekly")
                     THEN /\ r.weekday # None
                          /\ r.weekday[1] \in 0..6
                          /\ r.day_of_month = None
                     ELSE /\ r.day_of_month # None
                          /\ r.day_of_month[1] \in 1..31
                          /\ r.weekday = None
           ELSE /\ r.one_time_date # None
                /\ r.repeat_unit = None
                /\ r.repeat_interval = None
                /\ r.weekday = None
                /\ r.day_of_month = None
                /\ r.start_date = None
                /\ r.end_date = None

\* The text of a column in a data line: the field under the header's column
\* of that name, stripped; "" when the header or the line has none.
Field(header, line, column) ==
  IF \E i \in 1..Len(header) : i <= Len(line) /\ Lower(Strip(header[i])) = column
    THEN Strip(line[CHOOSE i \in 1..Len(header) :
                      i <= Len(line) /\ Lower(Strip(header[i])) = column])
    ELSE ""

\* A text that is empty or an ISO calendar date.
BlankOrDate(v) == v = "" \/ FromIsoFormat(v).ok

\* The n-th line that is not blank was rejected; its entry; and, when it was
\* accepted, its valid row.
RejectedAt(p, n) == \E k \in 1..Len(p.invalid) : p.invalid[k].rownum = n + 1
EntryAt(p, n) == p.invalid[CHOOSE k \in 1..Len(p.invalid) : p.invalid[k].rownum = n + 1]
ValidAt(p, n) ==
  p.valid[n - Cardinality({k \in 1..Len(p.invalid) : p.invalid[k].rownum <= n + 1})]

\* C15: in the budget parser, a row with an empty note whose end_date (or,
\* end_date being empty or a date, whose start_date) is not empty and no ISO
\* date gets that text as its note and has that date unset, and it is not
\* rejected for a bad date when its other dates are in order; a row with a
\* note keeps it and keeps both date fields as they came; a row with no note
\* and nothing to recover has no note.
C15_ShiftedNoteRecovered ==
  (parsed # None /\ csv.kind = "budget" /\ Acceptable("budget", csv.content.header)) =>
    \A n \in 1..Len(NonBlank(csv.content.rows)) :
      LET header == csv.content.header
          line == NonBlank(csv.content.rows)[n]
          note0 == Field(header, line, "note")
          e0 == Field(header, line, "end_date")
          s0 == Field(header, line, "start_date")
          d0 == Field(header, line, "date")
          shiftE == note0 = "" /\ ~BlankOrDate(e0)
          shiftS == note0 = "" /\ BlankOrDate(e0) /\ ~BlankOrDate(s0)
      IN IF RejectedAt(parsed[1], n)
           THEN LET e == EntryAt(parsed[1], n)
                IN /\ note0 # "" => (Get(e.raw, "end_date") = e0 /\ Get(e.raw, "start_date") = s0)
                   /\ (shiftE /\ BlankOrDate(s0) /\ BlankOrDate(d0))
                        => e.error # "Invalid isoformat string"
                   /\ (shiftS /\ BlankOrDate(d0)) => e.error # "Invalid isoformat string"
           ELSE LET r == ValidAt(parsed[1], n)
                IN /\ note0 # "" =>
                        /\ r.note = Some(note0)
                        /\ r.is_recurring =>
                             /\ r.end_date = parse_date(e0).val
                             /\ r.start_date = parse_date(s0).val
                   /\ shiftE => (r.note = Some(e0) /\ r.end_date = None)
                   /\ shiftS =>
                        /\ r.note = Some(s0)
                        /\ r.start_date = None
                        /\ r.is_recurring => r.end_date = parse_date(e0).val
                   /\ (note0 = "" /\ ~shiftE /\ ~shiftS) => r.note = None

\* C15, its case: the recurring rent with its note in end_date was accepted
\* with that note and no end date, and the rent with its note in start_date
\* and an end date after it was accepted with that note and no start date.
C15_Witness ==
  /\ parsed # None
  /\ csv.kind = "budget"
  /\ csv.content.header = BudgetHeader
  /\ csv.content.rows = <<LineRentShort, LineNoteInStart>>
  /\ Len(parsed[1].valid) = 2
  /\ parsed[1].valid[1].note = Some("Monthly rent")
  /\ parsed[1].valid[1].end_date = None
  /\ parsed[1].valid[2].note = Some("Rent again")
  /\ parsed[1].valid[2].start_date = None
  /\ parsed[1].valid[2].end_date = Some(<<2025, 3, 5>>)

(***************************************************************************)
(* The money functions on their own                                        *)
(*                                                                         *)
(* money.stage is "cents" while an int waits for cents_to_euros_str,       *)
(* "text" while a text waits for euros_to_cents, "done" once               *)
(* euros_to_cents has returned and "raised" once either call has raised.   *)
(* money.origin tells whether the run began with an int or with a text.    *)
(***************************************************************************)

MaxCents == 300

\* Ints around the precision of the decimal context: 10^(k-1) and 10^k - 1
\* for k digits.
LongCents ==
  UNION {{[i \in 1..k |-> "9"], [i \in 1..k |-> IF i = 1 THEN "1" ELSE "0"]} :
           k \in (DecimalPrec - 1)..(DecimalPrec + 1)}

CentsInputs == {Digits(n) : n \in 0..MaxCents} \cup LongCents

NegativeTexts ==
  {<<"-", "5">>, <<"-", "0", ".", "0", "1">>, <<"-", "1", "2", ",", "5", "0">>,
   <<" ", "-", "1", " ">>, <<"-", "i", "n", "f">>}
EmptyTexts == {<<>>, <<" ">>, <<" ", " ">>}
NonNumericTexts ==
  {<<"a", "b", "c">>, <<"1", ".", "2", ".", "3">>, <<"1", "2", "x">>, <<"-">>, <<".">>,
   <<"N", "a", "N">>, <<"n", "a", "n">>, <<"-", "N", "a", "N">>}
NumericTexts ==
  {<<"1", "2">>, <<"1", "2", ".", "3">>, <<" ", "1", "2", ".", "3", "0", " ">>,
   <<"1", "2", ",", "5", "0">>, <<"0", ".", "0", "0", "5">>, <<"0", ".", "0", "0", "4">>,
   <<"-", "0">>, <<"+", "5">>, <<".", "5">>, <<"9", ".", "9", "9", "5">>,
   <<"I", "n", "f", "i", "n", "i", "t", "y">>}

TextInputs ==
  {None} \cup {Some(t) : t \in NegativeTexts \cup EmptyTexts \cup NonNumericTexts
                                 \cup NumericTexts}

InitMoney ==
  /\ InitApp
  /\ form = NoForm
  /\ calls = NoCalls
  /\ csv = NoCsv
  /\ parsed = None
  /\ plan = NoPlan
  /\ money \in {[NoMoney EXCEPT !.stage = "cents", !.origin = "int", !.cents = c] :
                  c \in CentsInputs}
               \cup {[NoMoney EXCEPT !.stage = "text", !.origin = "text", !.text = t] :
                       t \in TextInputs}

\* cents_to_euros_str(money.cents)
Format ==
  /\ money.stage = "cents"
  /\ LET r == cents_to_euros_str(money.cents)
     IN money' = IF r.raised # ""
                   THEN [money EXCEPT !.stage = "raised", !.raised = r.raised]
                   ELSE [money EXCEPT !.stage = "text", !.text = Some(r.value)]
  /\ UNCHANGED <<session, IMPORT_BATCHES, db, next_batch, inflight, resp, history,
                 provenance, csv, parsed, plan, form, calls>>

\* euros_to_cents(money.text)
ParseMoney ==
  /\ money.stage = "text"
  /\ LET r == euros_to_cents_chars(money.text)
     IN money' = IF r.raised # ""
                   THEN [money EXCEPT !.stage = "raised", !.raised = r.raised]
                   ELSE [money EXCEPT !.stage = "done", !.out = r.value, !.neg = r.neg]
  /\ UNCHANGED <<session, IMPORT_BATCHES, db, next_batch, inflight, resp, history,
                 provenance, csv, parsed, plan, form, calls>>

NextMoney == Format \/ ParseMoney

SpecMoney == InitMoney /\ [][NextMoney]_vars

(***************************************************************************)
(* Claims C16 - C17                                                        *)
(***************************************************************************)

C17_RejectedWithMoneyParseError ==
  money.origin = "text" =>
    /\ money.stage = "done" => ~money.neg
    /\ /\ money.stage \in {"done", "raised"}
       /\ \/ money.text = None
          \/ money.text[1] \in NegativeTexts \cup EmptyTexts \cup NonNumericTexts
       => money.stage = "raised" /\ money.raised = "MoneyParseError"

(***************************************************************************)
(* The dashboard's planned amounts (dashboard.py)                          *)
(***************************************************************************)

\* a < b on dates <<year, month, day>>
DateBefore(a, b) ==
  \/ a[1] < b[1]
  \/ a[1] = b[1] /\ a[2] < b[2]
  \/ a[1] = b[1] /\ a[2] = b[2] /\ a[3] < b[3]

\* d - timedelta(days=1)
PrevDay(d) ==
  IF d[3] > 1 THEN <<d[1], d[2], d[3] - 1>>
  ELSE IF d[2] > 1 THEN <<d[1], d[2] - 1, DaysInMonth(d[1], d[2] - 1)>>
  ELSE <<d[1] - 1, 12, 31>>

\* date.weekday(): 0 = Monday ... 6 = Sunday
MonthOffset == <<0, 3, 2, 5, 0, 3, 5, 1, 4, 6, 2, 4>>
DateWeekday(d) ==
  LET y == IF d[2] < 3 THEN d[1] - 1 ELSE d[1]
      sunday0 == (y + (y \div 4) - (y \div 100) + (y \div 400) + MonthOffset[d[2]] + d[3]) % 7
  IN (sunday0 + 6) % 7

month_start(y, m) == <<y, m, 1>>

next_month_start(d) == IF d[2] = 12 THEN <<d[1] + 1, 1, 1>> ELSE <<d[1], d[2] + 1, 1>>

months_diff(a, b) == (b[1] - a[1]) * 12 + (b[2] - a[2])

\* The two loops of the weekly branch, on the days of the window's month:
\* FirstMatch moves cur to the first day with the weekday, Occurrences counts
\* one occurrence every 7 days while cur <= month_end.  A cur past month_end
\* is kept as a day number beyond the month's last day, which is all the
\* comparison with month_end looks at.
RECURSIVE FirstMatch(_, _, _)
FirstMatch(cur, me, weekday) ==
  IF cur[3] <= me[3] /\ DateWeekday(cur) # weekday
    THEN FirstMatch(<<cur[1], cur[2], cur[3] + 1>>, me, weekday)
  ELSE cur

RECURSIVE Occurrences(_, _)
Occurrences(cur, me) ==
  IF cur[3] <= me[3] THEN 1 + Occurrences(<<cur[1], cur[2], cur[3] + 7>>, me) ELSE 0

\* A planned amount that forgets the window of a one-time budget.
budget_planned_amount_for_month_AnyMonth(b, ms, me) ==
  IF ~b.is_recurring THEN IF b.one_time_date # None THEN b.amount_cents ELSE 0
  ELSE 0

\* A planned amount that counts every month from start_date on, whatever the
\* interval, for a monthly or yearly budget.
budget_planned_amount_for_month_EveryPeriod(b, ms, me) ==
  IF ~b.is_recurring THEN 0
  ELSE IF b.start_date # None /\ DateBefore(me, b.start_date[1]) THEN 0
  ELSE IF b.end_date # None /\ DateBefore(b.end_date[1], ms) THEN 0
  ELSE IF b.repeat_unit = Some("monthly") THEN b.amount_cents
  ELSE IF b.repeat_unit = Some("yearly")
    THEN IF b.start_date # None /\ b.start_date[1][2] # ms[2] THEN 0 ELSE b.amount_cents
  ELSE 0

\* A planned amount that rounds the weekly occurrences down instead of up.
budget_planned_amount_for_month_RoundDown(b, ms, me) ==
  IF ~b.is_recurring THEN 0
  ELSE IF b.start_date # None /\ DateBefore(me, b.start_date[1]) THEN 0
  ELSE IF b.end_date # None /\ DateBefore(b.end_date[1], ms) THEN 0
  ELSE IF b.repeat_unit = Some("weekly") /\ b.weekday # None
    THEN b.amount_cents *
           (Occurrences(FirstMatch(ms, me, b.weekday[1]), me) \div b.repeat_interval[1])
  ELSE 0

\* _budget_planned_amount_for_month(b, month_start, month_end)
budget_planned_amount_for_month(b, ms, me) ==
  IF ~b.is_recurring
    THEN IF b.one_time_date # None /\ ~DateBefore(b.one_time_date[1], ms)
                                   /\ ~DateBefore(me, b.one_time_date[1])
           THEN b.amount_cents
         ELSE 0
  ELSE IF b.start_date # None /\ DateBefore(me, b.start_date[1]) THEN 0
  ELSE IF b.end_date # None /\ DateBefore(b.end_date[1], ms) THEN 0
  ELSE
    LET ru_val == IF b.repeat_unit = None THEN "" ELSE b.repeat_unit[1]
        interval == IF b.repeat_interval = None \/ b.repeat_interval = Some(0) THEN 1
                    ELSE b.repeat_interval[1]
    IN CASE ru_val = "monthly" ->
              IF b.start_date # None
                THEN LET diff == months_diff(b.start_date[1], ms)
                     IN IF diff < 0 THEN 0
                        ELSE IF diff % interval # 0 THEN 0
                        ELSE b.amount_cents
              ELSE b.amount_cents
         [] ru_val = "yearly" ->
              IF b.start_date # None /\ b.start_date[1][2] # ms[2] THEN 0
              ELSE IF b.start_date # None
                THEN LET year_diff == ms[1] - b.start_date[1][1]
                     IN IF year_diff < 0 THEN 0
                        ELSE IF year_diff % interval # 0 THEN 0
                        ELSE b.amount_cents
              ELSE b.amount_cents
         [] ru_val = "weekly" ->
              IF b.weekday = None THEN 0
              ELSE LET occurrences == Occurrences(FirstMatch(ms, me, b.weekday[1]), me)
                   IN b.amount_cents *
                        (IF interval > 1 THEN (occurrences + (interval - 1)) \div interval
                         ELSE occurrences)
         [] OTHER -> 0

MaxYear == 2025
MaxInterval == 3

Years == 2024..MaxYear

\* amount_cents of a stored budget: euros_to_cents returns any int >= 0
Amounts == {0, 1250}

OneTimeDates ==
  {None} \cup {Some(<<y, m, d>>) : y \in Years, m \in {1, 2, 12}, d \in {1, 15, 28}}
             \cup {Some(<<2024, 2, 29>>), Some(<<2024, 1, 31>>), Some(<<2023, 12, 31>>)}
StartDates ==
  {None, Some(<<2024, 1, 1>>), Some(<<2024, 1, 15>>), Some(<<2024, 3, 31>>),
   Some(<<2024, 12, 1>>), Some(<<2025, 2, 10>>)}
EndDates == {None, Some(<<2024, 6, 30>>), Some(<<2025, 1, 1>>), Some(<<2023, 12, 31>>)}

\* The budgets validate_budget lets into the store, and the one-time budget
\* without a date that the function provides for.
OneTimeBudgets ==
  {[NoBudget EXCEPT !.one_time_date = d, !.amount_cents = a] :
     d \in OneTimeDates, a \in Amounts}
RecurringBudgets ==
  {[NoBudget EXCEPT !.is_recurring = TRUE, !.repeat_unit = Some(u),
                    !.repeat_interval = Some(n), !.weekday = w,
                    !.start_date = sd, !.end_date = ed, !.amount_cents = a] :
     u \in {"monthly", "yearly"}, n \in 1..MaxInterval, w \in {None},
     sd \in StartDates, ed \in EndDates, a \in Amounts}
  \cup
  {[NoBudget EXCEPT !.is_recurring = TRUE, !.repeat_unit = Some("weekly"),
                    !.repeat_interval = Some(n), !.weekday = Some(w),
                    !.start_date = sd, !.end_date = ed, !.amount_cents = a] :
     n \in 1..MaxInterval, w \in 0..6, sd \in StartDates, ed \in EndDates, a \in {1250}}

InitPlan ==
  /\ InitApp
  /\ form = NoForm
  /\ calls = NoCalls
  /\ csv = NoCsv
  /\ parsed = None
  /\ money = NoMoney
  /\ plan \in {[NoPlan EXCEPT !.stage = "request", !.b = b, !.year = y, !.month = m] :
                 b \in OneTimeBudgets \cup RecurringBudgets, y \in Years, m \in 1..12}

\* dashboard(): the month's window, ms and me
Window ==
  /\ plan.stage = "request"
  /\ LET ms == month_start(plan.year, plan.month)
         nm == next_month_start(ms)
     IN plan' = [plan EXCEPT !.stage = "window", !.ms = Some(ms), !.me = Some(PrevDay(nm))]
  /\ UNCHANGED <<session, IMPORT_BATCHES, db, next_batch, inflight, resp, history,
                 provenance, csv, parsed, money, form, calls>>

\* dashboard(): amt = _budget_planned_amount_for_month(b, ms, me)
Planned ==
  /\ plan.stage = "window"
  /\ plan' = [plan EXCEPT !.stage = "planned",
                          !.amt = budget_planned_amount_for_month(plan.b, plan.ms[1],
                                                                  plan.me[1])]
  /\ UNCHANGED <<session, IMPORT_BATCHES, db, next_batch, inflight, resp, history,
                 provenance, csv, parsed, money, form, calls>>

NextPlan == Window \/ Planned

SpecPlan == InitPlan /\ [][NextPlan]_vars

(***************************************************************************)
(* Claims C18 - C20                                                        *)
(***************************************************************************)

\* The window is the calendar month asked for, first day to last.
WindowIsMonth ==
  plan.stage \in {"window", "planned"} =>
    /\ plan.ms = Some(<<plan.year, plan.month, 1>>)
    /\ plan.me = Some(<<plan.year, plan.month, DaysInMonth(plan.year, plan.month)>>)

\* a <= b on dates, through the number of the day counted from year 0 on a
\* calendar of 12 months of 31 days
DayNumber(d) == (d[1] * 12 + (d[2] - 1)) * 31 + d[3]
InWindow(d) == DayNumber(plan.ms[1]) <= DayNumber(d) /\ DayNumber(d) <= DayNumber(plan.me[1])

\* C18: a one-time budget contributes its full amount if and only if its
\* date d satisfies month_start <= d <= month_end, and 0 otherwise, also
\* when it has no date.
C18_OneTimeInWindow ==
  plan.stage = "planned" /\ ~plan.b.is_recurring =>
    plan.amt = IF plan.b.one_time_date # None /\ InWindow(plan.b.one_time_date[1])
                 THEN plan.b.amount_cents
               ELSE 0

C18_Witness ==
  /\ plan.stage = "planned"
  /\ ~plan.b.is_recurring
  /\ plan.b.one_time_date = Some(<<2024, 2, 29>>)
  /\ plan.month = 2
  /\ plan.amt = 1250

\* The window lies entirely before start_date, or entirely after end_date.
OutsideRange ==
  \/ plan.b.start_date # None /\ DayNumber(plan.me[1]) < DayNumber(plan.b.start_date[1])
  \/ plan.b.end_date # None /\ DayNumber(plan.ms[1]) > DayNumber(plan.b.end_date[1])

\* n is a non-negative multiple of the interval
IsMultiple(n, interval) == \E k \in 0..n : n = k * interval

\* C19: a recurring monthly budget contributes 0 when the window lies
\* entirely before start_date or entirely after end_date; otherwise the full
\* amount exactly when start_date is absent or the number of months from
\* start_date to month_start is a non-negative multiple of the interval, and
\* 0 in every other case.
C19_MonthlyEveryInterval ==
  plan.stage = "planned" /\ plan.b.is_recurring /\ plan.b.repeat_unit = Some("monthly") =>
    plan.amt =
      IF OutsideRange THEN 0
      ELSE IF plan.b.start_date = None THEN plan.b.amount_cents
      ELSE IF IsMultiple((plan.year - plan.b.start_date[1][1]) * 12
                           + plan.month - plan.b.start_date[1][2],
                         plan.b.repeat_interval[1])
        THEN plan.b.amount_cents
      ELSE 0

C19_Witness ==
  /\ plan.stage = "planned"
  /\ plan.b.repeat_unit = Some("monthly")
  /\ plan.b.repeat_interval = Some(2)
  /\ plan.b.start_date = Some(<<2024, 1, 15>>)
  /\ plan.b.end_date = None
  /\ plan.year = 2024 /\ plan.month = 5
  /\ plan.amt = 1250

\* C20: a recurring yearly budget inside its start/end window contributes
\* the full amount exactly when start_date is absent, or the window's month
\* of the year is start_date's month and the difference of the years is a
\* non-negative multiple of the interval; otherwise 0.
C20_YearlyEveryInterval ==
  /\ plan.stage = "planned"
  /\ plan.b.is_recurring
  /\ plan.b.repeat_unit = Some("yearly")
  /\ ~OutsideRange
  => plan.amt =
       IF plan.b.start_date = None THEN plan.b.amount_cents
       ELSE IF /\ plan.month = plan.b.start_date[1][2]
               /\ IsMultiple(plan.year - plan.b.start_date[1][1], plan.b.repeat_interval[1])
         THEN plan.b.amount_cents
       ELSE 0

C20_Witness ==
  /\ plan.stage = "planned"
  /\ plan.b.repeat_unit = Some("yearly")
  /\ plan.b.repeat_interval = Some(1)
  /\ plan.b.start_date = Some(<<2024, 1, 15>>)
  /\ plan.year = 2025 /\ plan.month = 1
  /\ plan.amt = 1250

(***************************************************************************)
(* Claim C21                                                               *)
(***************************************************************************)

\* The dates of the window that fall on the weekday
DatesOn(weekday) ==
  {d \in plan.ms[1][3]..plan.me[1][3] : DateWeekday(<<plan.year, plan.month, d>>) = weekday}

\* ceil(k / interval): the least n with n * interval >= k
CeilDiv(k, interval) == CHOOSE n \in 0..k : n * interval >= k /\ \A j \in 0..(n - 1) : j * interval < k

\* C21: a recurring weekly budget inside its start/end window contributes
\* amount * ceil(k / interval), k being the number of dates of the window
\* that fall on the budget's weekday (5 such dates: 5 * amount for interval
\* 1, 3 * amount for interval 2).
C21_WeeklyCeilOfOccurrences ==
  /\ plan.stage = "planned"
  /\ plan.b.is_recurring
  /\ plan.b.repeat_unit = Some("weekly")
  /\ ~OutsideRange
  => plan.amt = plan.b.amount_cents
                  * CeilDiv(Cardinality(DatesOn(plan.b.weekday[1])), plan.b.repeat_interval[1])

C21_Witness ==
  /\ plan.stage = "planned"
  /\ plan.b.repeat_unit = Some("weekly")
  /\ plan.b.repeat_interval = Some(2)
  /\ plan.b.weekday = Some(3)
  /\ plan.b.start_date = Some(<<2024, 1, 15>>)
  /\ plan.year = 2024 /\ plan.month = 2
  /\ Cardinality(DatesOn(3)) = 5
  /\ plan.amt = 3 * 1250

(***************************************************************************)
(* Categories and subcategories: the look-up-then-insert of                *)
(* _ensure_category and _ensure_subcategory (budgets.py, transactions.py)  *)
(* and of create_category and create_subcategory (categories.py), run by   *)
(* worker threads that interleave between the SELECT and the COMMIT.       *)
(*                                                                         *)
(* calls.call[w].pc: "idle", then "select" (the call is made, nothing is   *)
(* read yet), "add" (nothing was found: the row is to be added and         *)
(* committed), and one of "done" (returned), "rejected" (the form is shown *)
(* again with an error), "redirect", "fault" (an exception left the        *)
(* handler).  existed records whether a row of the name was stored when the *)
(* call read the store, wrote whether the call inserted a row.             *)
(***************************************************************************)

MaxCalls == 4

EnsureOps == {"ensure_category", "ensure_subcategory"}
CreateOps == {"create_category", "create_subcategory"}
CategoryOps == {"ensure_category", "create_category"}
Ended == {"idle", "done", "rejected", "redirect", "fault"}

\* The names a parsed row carries (stripped by the parser), and the names a
\* form can carry.
RowNames == {"Food"}
FormNames == {"Food", " Food ", ""}

\* UniqueConstraint("user_id", "name") and UniqueConstraint("category_id",
\* "name"): whether the row to add would break it.
BreaksUnique(d, c) ==
  IF c.op \in CategoryOps
    THEN \E x \in d.Category : x.user_id = c.uid /\ x.name = Strip(c.name)
  ELSE \E x \in d.Subcategory : x.category_id = c.category_id /\ x.name = Strip(c.name)

\* The rows the SELECT of a call finds.
Selected(d, c) ==
  LET name == IF c.op \in CreateOps THEN Strip(c.name) ELSE c.name
  IN IF c.op \in CategoryOps
       THEN {x \in d.Category : x.user_id = c.uid /\ x.name = name}
     ELSE {x \in d.Subcategory :
             x.user_id = c.uid /\ x.category_id = c.category_id /\ x.name = name}

\* db.add(row); db.commit() of a call
Added(d, c) ==
  IF c.op \in CategoryOps
    THEN [d EXCEPT !.Category = @ \cup {[id |-> d.next.Category, user_id |-> c.uid,
                                         name |-> Strip(c.name)]},
                   !.next.Category = @ + 1]
  ELSE [d EXCEPT !.Subcategory = @ \cup {[id |-> d.next.Subcategory, user_id |-> c.uid,
                                          category_id |-> c.category_id,
                                          name |-> Strip(c.name)]},
                 !.next.Subcategory = @ + 1]

AlreadyExists(op) ==
  IF op = "create_category" THEN "Category already exists." ELSE "Subcategory already exists."

\* A select that looks the name up as it was typed, before it is trimmed.
SelectOutcome_Untrimmed(d, c) ==
  LET found == IF c.op \in CategoryOps
                 THEN {x \in d.Category : x.user_id = c.uid /\ x.name = c.name}
               ELSE {x \in d.Subcategory : x.user_id = c.uid
                                             /\ x.category_id = c.category_id
                                             /\ x.name = c.name}
  IN IF c.op \in CreateOps /\ Strip(c.name) = ""
       THEN [c EXCEPT !.pc = "rejected", !.error = "Name is required."]
     ELSE IF found # {}
       THEN [c EXCEPT !.pc = "rejected", !.error = AlreadyExists(c.op)]
     ELSE [c EXCEPT !.pc = "add"]

\* A call up to and with its SELECT ... .first(): what the call is after it.
\* create_subcategory first looks its category up (a redirect when it is not
\* the user's; no category is deleted here, so the two reads are one step);
\* the forms refuse an empty name.
SelectOutcome(d, c) ==
  LET found == Selected(d, c)
  IN IF c.op = "create_subcategory"
          /\ ~\E x \in d.Category : x.id = c.category_id /\ x.user_id = c.uid
       THEN [c EXCEPT !.pc = "redirect"]
     ELSE IF c.op \in CreateOps /\ Strip(c.name) = ""
       THEN [c EXCEPT !.pc = "rejected", !.error = "Name is required."]
     ELSE IF found # {}
       THEN IF c.op \in CreateOps
              THEN [c EXCEPT !.pc = "rejected", !.error = AlreadyExists(c.op)]
            ELSE [c EXCEPT !.pc = "done", !.id = MinId(found).id]
     ELSE [c EXCEPT !.pc = "add"]

InitCalls ==
  /\ InitApp
  /\ csv = NoCsv
  /\ parsed = None
  /\ money = NoMoney
  /\ plan = NoPlan
  /\ form = NoForm
  /\ calls = NoCalls

\* A request reaches the call: apply reaches _ensure_category or
\* _ensure_subcategory for a row (the category being one of the user's), or
\* a form is posted to create_category or create_subcategory.
Call(w, op, uid, name, category_id) ==
  /\ calls.call[w].pc \in Ended
  /\ calls.made < MaxCalls
  /\ op \in EnsureOps => name \in RowNames
  /\ op \in CategoryOps => category_id = 0
  /\ op = "ensure_subcategory" =>
       \E x \in db.Category : x.id = category_id /\ x.user_id = uid
  /\ op = "create_subcategory" => category_id \in {x.id : x \in db.Category}
  /\ calls' = [call |-> [calls.call EXCEPT ![w] =
                           [NoCall EXCEPT !.op = op, !.uid = uid, !.name = name,
                                          !.category_id = category_id, !.pc = "select"]],
               made |-> calls.made + 1]
  /\ UNCHANGED <<session, IMPORT_BATCHES, db, next_batch, inflight, resp, history,
                 provenance, csv, parsed, money, plan, form>>

\* existing = db.exec(select(...).where(...)).first()
Select(w) ==
  /\ calls.call[w].pc = "select"
  /\ calls' = [calls EXCEPT !.call[w] =
                  [SelectOutcome(db, calls.call[w]) EXCEPT
                     !.existed = BreaksUnique(db, calls.call[w])]]
  /\ UNCHANGED <<session, IMPORT_BATCHES, db, next_batch, inflight, resp, history,
                 provenance, csv, parsed, money, plan, form>>

\* db.add(c); db.commit(): the commit raises sqlalchemy's IntegrityError when
\* the row breaks the table's unique constraint, and no handler catches it.
Add(w) ==
  /\ calls.call[w].pc = "add"
  /\ IF BreaksUnique(db, calls.call[w])
       THEN /\ calls' = [calls EXCEPT !.call[w].pc = "fault",
                                      !.call[w].error = "IntegrityError"]
            /\ db' = db
     ELSE /\ calls' = [calls EXCEPT !.call[w].pc = "done", !.call[w].wrote = TRUE,
                                    !.call[w].id = IF calls.call[w].op \in CategoryOps
                                                     THEN db.next.Category
                                                   ELSE db.next.Subcategory]
          /\ db' = Added(db, calls.call[w])
  /\ UNCHANGED <<session, IMPORT_BATCHES, next_batch, inflight, resp, history,
                 provenance, csv, parsed, money, plan, form>>

NextCalls ==
  \/ \E w \in Workers, op \in EnsureOps \cup CreateOps, uid \in Users, name \in FormNames,
        category_id \in 0..MaxCalls : Call(w, op, uid, name, category_id)
  \/ \E w \in Workers : Select(w)
  \/ \E w \in Workers : Add(w)

SpecCalls == InitCalls /\ [][NextCalls]_vars

(***************************************************************************)
(* Claims C22, C24                                                         *)
(***************************************************************************)

\* C22: when two apply requests both need to auto-create the same new
\* category (or subcategory) for the same user, the uniqueness violation of
\* the later insert is recovered by looking the row up again: neither
\* request ends in an unhandled fault, and exactly one category (or
\* subcategory) with that name exists afterwards.
C22_EnsureRecoversFromRace ==
  \A w \in Workers :
    LET c == calls.call[w]
    IN c.op \in EnsureOps /\ c.pc \in {"done", "fault"} =>
         /\ c.pc # "fault"
         /\ c.op = "ensure_category" =>
              Cardinality({x \in db.Category : x.user_id = c.uid /\ x.name = c.name}) = 1
         /\ c.op = "ensure_subcategory" =>
              Cardinality({x \in db.Subcategory :
                             x.category_id = c.category_id /\ x.name = c.name}) = 1

\* C24: after any sequence of category and subcategory create requests, no
\* user has two categories of the same name and no category has two
\* subcategories of the same name; a create whose trimmed name already
\* exists when the request looks it up is rejected with an 'already exists'
\* error and inserts nothing.
C24_CreateKeepsNamesUnique ==
  /\ \A x, y \in db.Category : x.user_id = y.user_id /\ x.name = y.name => x = y
  /\ \A x, y \in db.Subcategory : x.category_id = y.category_id /\ x.name = y.name => x = y
  /\ \A w \in Workers :
       LET c == calls.call[w]
       IN c.op \in CreateOps /\ c.pc \notin {"idle", "select", "redirect"} /\ c.existed =>
            c.pc = "rejected" /\ c.error = AlreadyExists(c.op) /\ ~c.wrote

C24_Witness ==
  \E w \in Workers :
    /\ calls.call[w].op = "create_subcategory"
    /\ calls.call[w].name = " Food "
    /\ calls.call[w].existed
    /\ calls.call[w].pc = "rejected"
    /\ \E x \in db.Category : x.name = "Food" /\ x.user_id = calls.call[w].uid

(***************************************************************************)
(* validate_budget on its own, and create_budget (budgets.py 704-835)      *)
(*                                                                         *)
(* form.origin is "object" for a Budget handed to validate_budget as it    *)
(* is, "form" for the fields posted to create_budget.  form.status is the  *)
(* HTTP status of create_budget's response (500: an exception left it).    *)
(***************************************************************************)

\* Budget objects: every field is Optional in the model class, whatever the
\* schedule.
BudgetObjects ==
  {[user_id |-> 1, type |-> "expense", category_id |-> 1, subcategory_id |-> None,
    amount_cents |-> 1230, currency |-> "EUR", is_recurring |-> rec, one_time_date |-> otd,
    repeat_unit |-> ru, repeat_interval |-> ri, weekday |-> wd, day_of_month |-> dom,
    start_date |-> sd, end_date |-> None, note |-> None] :
     rec \in BOOLEAN, otd \in {None, Some(<<2025, 1, 1>>)},
     ru \in {None, Some("weekly"), Some("monthly")}, ri \in {None, Some(0), Some(1)},
     wd \in {None, Some(0), Some(2), Some(40)}, dom \in {None, Some(0), Some(1)},
     sd \in {None, Some(<<2025, 2, 1>>)}}

\* The fields of the form of create_budget
BudgetForms ==
  [uid : {0, 1}, category_id : {"", "1", "2", "abc"}, subcategory_id : {"", "1"},
   amount_eur : {"12.30", "-5", "abc"}, is_recurring : {"", "on"},
   repeat_unit : {"", "weekly", "monthly", "bogus"}, repeat_interval : {"", "0", "1", "abc"},
   day_of_month : {"", "1", "40"}, weekday : {"", "0", "40"},
   one_time_date : {None, Some(<<2025, 1, 1>>)}, start_date : {None, Some(<<2025, 2, 1>>)}]

\* The store of a user with one category and no subcategory
OneCategory ==
  [Budget |-> {}, Transaction |-> {},
   Category |-> {[id |-> 1, user_id |-> 1, name |-> "Food"]}, Subcategory |-> {},
   next |-> [Budget |-> 1, Transaction |-> 1, Category |-> 2, Subcategory |-> 1]]

InitBudget ==
  /\ session = [s \in Sessions |-> [user_id |-> 0, batch |-> [k \in Kinds |-> 0]]]
  /\ IMPORT_BATCHES = [k \in Kinds |-> EmptyDict]
  /\ db = OneCategory
  /\ next_batch = 1
  /\ inflight = EmptyBag
  /\ resp = NoResp
  /\ history = <<>>
  /\ provenance = [u \in Users |-> [k \in Kinds |-> <<>>]]
  /\ csv = NoCsv
  /\ parsed = None
  /\ money = NoMoney
  /\ plan = NoPlan
  /\ calls = NoCalls
  /\ \/ form \in {[NoForm EXCEPT !.stage = "object", !.origin = "object", !.b = Some(b)] :
                    b \in BudgetObjects}
     \/ form \in {[NoForm EXCEPT !.stage = "posted", !.origin = "form", !.f = Some(f)] :
                    f \in BudgetForms}

\* validate_budget(b) of a Budget object
Validate ==
  /\ form.stage = "object"
  /\ form' = [form EXCEPT !.stage = "validated", !.accepted = validate_budget(form.b[1])]
  /\ UNCHANGED <<session, IMPORT_BATCHES, db, next_batch, inflight, resp, history,
                 provenance, csv, parsed, money, plan, calls>>

\* int(s) of a field that is read only when the budget is recurring and the
\* field is not blank: [ok, val (None or Some(n))]
OptionalInt(recurring, s) ==
  IF recurring /\ Strip(s) # ""
    THEN [ok |-> ParseInt(s).ok, val |-> Some(ParseInt(s).val)]
  ELSE [ok |-> TRUE, val |-> None]

\* Budget(...) of create_budget (budgets.py 806-826)
FormBudget(f, recurring, amount_cents, ru, ri, dom, wd) ==
  [user_id |-> f.uid, type |-> "expense", category_id |-> ParseInt(f.category_id).val,
   subcategory_id |-> None, amount_cents |-> amount_cents, currency |-> "EUR",
   is_recurring |-> recurring,
   one_time_date |-> IF recurring THEN None ELSE f.one_time_date,
   repeat_unit |-> IF recurring THEN ru ELSE None,
   repeat_interval |-> IF recurring THEN ri ELSE None,
   weekday |-> IF recurring THEN wd ELSE None,
   day_of_month |-> IF recurring THEN dom ELSE None,
   start_date |-> IF recurring THEN f.start_date ELSE None,
   end_date |-> None, note |-> None]

\* The response of create_budget that is not a redirect to /budget
Shown(status, error) == [status |-> status, error |-> error, b |-> None]

\* create_budget, for the amount that euros_to_cents made of amount_eur:
\* [status, error, b], b being the budget to add and commit, if any.
create_budget(d, f, amount, recurring) ==
  IF f.uid = 0 THEN Shown(303, "")
  ELSE IF Strip(f.category_id) = "" THEN Shown(400, "Category is required.")
  ELSE IF ~ParseInt(f.category_id).ok THEN Shown(400, "Invalid category.")
  ELSE IF ~\E c \in d.Category : c.id = ParseInt(f.category_id).val /\ c.user_id = f.uid
    THEN Shown(400, "Invalid category.")
  ELSE IF Strip(f.subcategory_id) # "" /\ ~ParseInt(f.subcategory_id).ok
    THEN Shown(400, "Invalid subcategory.")
  ELSE IF Strip(f.subcategory_id) # ""
          /\ ~\E x \in d.Subcategory : /\ x.id = ParseInt(f.subcategory_id).val
                                       /\ x.user_id = f.uid
                                       /\ x.category_id = ParseInt(f.category_id).val
    THEN Shown(400, "Invalid subcategory for selected category.")
  ELSE IF amount.raised = "MoneyParseError" THEN Shown(400, amount.error)
  ELSE IF amount.raised # "" THEN Shown(500, amount.raised)
  ELSE IF recurring /\ Strip(f.repeat_unit) # ""
          /\ Lower(Strip(f.repeat_unit)) \notin {"weekly", "monthly", "yearly"}
    THEN Shown(400, "Invalid repeat_unit.")
  ELSE IF ~OptionalInt(recurring, f.repeat_interval).ok
    THEN Shown(400, "Interval must be a number.")
  ELSE IF ~OptionalInt(recurring, f.day_of_month).ok
    THEN Shown(400, "Day of month must be a number.")
  ELSE IF ~OptionalInt(recurring, f.weekday).ok THEN Shown(400, "Weekday must be a number.")
  ELSE IF ~recurring /\ f.one_time_date = None
    THEN Shown(400, "Date is required for one-time budget.")
  ELSE IF ~validate_budget(FormBudget(f, recurring, DigitsVal(amount.value),
                                      IF Strip(f.repeat_unit) = "" THEN None
                                      ELSE Some(Lower(Strip(f.repeat_unit))),
                                      OptionalInt(recurring, f.repeat_interval).val,
                                      OptionalInt(recurring, f.day_of_month).val,
                                      OptionalInt(recurring, f.weekday).val))
    THEN Shown(400, "ValidationError")
  ELSE [status |-> 303, error |-> "",
        b |-> Some(FormBudget(f, recurring, DigitsVal(amount.value),
                              IF Strip(f.repeat_unit) = "" THEN None
                              ELSE Some(Lower(Strip(f.repeat_unit))),
                              OptionalInt(recurring, f.repeat_interval).val,
                              OptionalInt(recurring, f.day_of_month).val,
                              OptionalInt(recurring, f.weekday).val))]

\* POST /budget
CreateBudget ==
  /\ form.stage = "posted"
  /\ LET f == form.f[1]
         r == create_budget(db, f, euros_to_cents_chars(Some(Chars(Strip(f.amount_eur)))),
                            Lower(Strip(f.is_recurring)) \in {"on", "true", "1", "yes"})
     IN /\ form' = [form EXCEPT !.stage = "answered", !.status = r.status,
                                !.error = r.error, !.b = r.b, !.accepted = r.b # None]
        /\ db' = IF r.b = None THEN db
                 ELSE [db EXCEPT !.Budget = @ \cup {WithId(r.b[1], db.next.Budget)},
                                 !.next.Budget = @ + 1]
  /\ UNCHANGED <<session, IMPORT_BATCHES, next_batch, inflight, resp, history,
                 provenance, csv, parsed, money, plan, calls>>

NextBudget == Validate \/ CreateBudget

SpecBudget == InitBudget /\ [][NextBudget]_vars

(***************************************************************************)
(* Claim C23                                                               *)
(***************************************************************************)

\* A budget that is well formed for its schedule
WellFormed(b) ==
  IF b.is_recurring
    THEN /\ b.one_time_date = None
         /\ b.repeat_unit # None
         /\ b.repeat_interval # None /\ b.repeat_interval[1] >= 1
         /\ b.repeat_unit = Some("weekly") => b.weekday # None /\ b.weekday[1] \in 0..6
  ELSE /\ b.one_time_date # None
       /\ b.repeat_unit = None /\ b.repeat_interval = None /\ b.day_of_month = None
       /\ b.weekday = None /\ b.start_date = None /\ b.end_date = None

\* C23: validate_budget accepts a budget only if it is well formed for its
\* schedule (one-time: a date and no recurrence field; recurring: no
\* one-time date, a repeat unit, an interval >= 1, and for a weekly one a
\* weekday in 0..6), and create_budget stores nothing when the validation
\* fails.
C23_AcceptedOnlyIfWellFormed ==
  /\ form.stage = "validated" /\ form.accepted => WellFormed(form.b[1])
  /\ form.stage = "answered" =>
       /\ \A x \in db.Budget : WellFormed(x)
       /\ form.status # 303 \/ form.f[1].uid = 0 => db.Budget = {}

(***************************************************************************)
(* Claim C25                                                               *)
(***************************************************************************)

\* The records a step added to the table of a kind
NewRecords(kind) == {x \in db'[Table(kind)] : x.id >= db.next[Table(kind)]}

\* C25: at apply time a valid row that fails the final re-validation is
\* skipped without an error: every other valid row of the batch is still
\* inserted, the batch is still consumed and removed, and the response is
\* the redirect to the list page.
C25_FailingRowIsSkipped ==
  [][\A q \in BagToSet(inflight) :
       /\ ApplyStore(q) =>
            /\ Cardinality(NewRecords(q.kind))
                 = Cardinality({i \in 1..Len(q.valid_rows) :
                                  Insertable(q.kind, q.valid_rows[i])})
            /\ \A x \in NewRecords(q.kind) : x.user_id = q.uid
       /\ ApplyCleanup(q) =>
            /\ q.batch_id \notin DOMAIN IMPORT_BATCHES'[q.kind]
            /\ session'[q.sid].batch[q.kind] = 0
            /\ resp'.op = "apply" /\ resp'.body.result = "list"]_vars

C25_Witness ==
  \E b \in DOMAIN history :
    LET rows == Parsed(history[b].file).valid
    IN /\ history[b].applied >= 1
       /\ \E i \in 1..Len(rows) : ~Insertable(history[b].kind, rows[i])
       /\ \E i, j \in 1..Len(rows) :
            /\ i < j
            /\ ~Insertable(history[b].kind, rows[i])
            /\ Insertable(history[b].kind, rows[j])
       /\ Cardinality(RecordsOf(db, history[b].kind, history[b].uid))
            >= Cardinality({i \in 1..Len(rows) : Insertable(history[b].kind, rows[i])})
       /\ b \notin DOMAIN IMPORT_BATCHES[history[b].kind]
       /\ resp.op = "apply" /\ resp.kind = history[b].kind /\ resp.body.result = "list"

(***************************************************************************)
(* Claim C26: the order of the row checks                                  *)
(***************************************************************************)

\* A check of the row loop fails on a data line: the condition under which
\* the loop raises for that field.
CheckFails(check, header, line) ==
  CASE check = "date" ->
         LET d == parse_date(Field(header, line, "date"))
         IN ~d.ok \/ d.val = None
    [] check = "type" -> Lower(Field(header, line, "type")) \notin {"income", "expense"}
    [] check = "category" -> Field(header, line, "category") = ""
    [] check = "description" -> Field(header, line, "description") = ""
    [] check = "amount" -> ~euros_to_cents(Field(header, line, "amount")).ok
    [] check = "schedule" -> SCHEDULE_MAP(Lower(Field(header, line, "schedule"))) = None
    [] OTHER -> FALSE

\* The error the loop records when that check fails.
CheckError(check, header, line) ==
  CASE check = "date" ->
         IF Field(header, line, "date") = "" THEN "date is required (YYYY-MM-DD)."
         ELSE "Invalid isoformat string"
    [] check = "type" -> "type must be 'income' or 'expense'."
    [] check = "category" -> "category is required."
    [] check = "description" -> "description is required."
    [] check = "amount" -> euros_to_cents(Field(header, line, "amount")).error
    [] check = "schedule" -> "schedule must be 'one-time' or 'recurring' (or empty)."
    [] OTHER -> ""

\* The order of the checks as the specification gives it for both parsers,
\* and the order of the transaction loop (transactions.py 236-259).
StatedOrder == <<"type", "category", "amount", "currency", "schedule">>
TransactionOrder == <<"date", "type", "category", "description", "amount", "currency">>

\* The checks of an order that fail on the line, and the first of them.
Failing(order, header, line) ==
  {i \in 1..Len(order) : CheckFails(order[i], header, line)}

FirstFailing(order, header, line) ==
  order[CHOOSE i \in Failing(order, header, line) :
          \A j \in Failing(order, header, line) : i <= j]

\* Every line that is not blank and fails a check of the order has exactly
\* one invalid entry, carrying the error of the first check that fails.
ErrorsFollow(order) ==
  (parsed # None /\ Acceptable(csv.kind, csv.content.header) /\ ~parsed[1].crashed) =>
    \A n \in 1..Len(NonBlank(csv.content.rows)) :
      LET header == csv.content.header
          line == NonBlank(csv.content.rows)[n]
          p == parsed[1]
      IN Failing(order, header, line) # {} =>
           /\ Cardinality({k \in 1..Len(p.invalid) : p.invalid[k].rownum = n + 1}) = 1
           /\ EntryAt(p, n).error
                = CheckError(FirstFailing(order, header, line), header, line)

\* C26, as stated: for a data row with several defects the one error
\* recorded in its invalid entry is that of the first failing check in the
\* order type, category, amount, currency, schedule, in the transaction
\* parser as in the budget parser.
C26_FirstFailingInStatedOrder == ErrorsFollow(StatedOrder)

\* C26, amended: the budget parser records for a row the one error of the
\* first failing check in the order type, category, amount, currency,
\* schedule; the transaction parser records the one error of the first
\* failing check in the order date, type, category, description, amount,
\* currency.
C26_FirstFailingInParserOrder ==
  ErrorsFollow(IF csv.kind = "budget" THEN StatedOrder ELSE TransactionOrder)

\* A transaction line with a bad date, a bad type and a bad amount was
\* parsed: its one entry carries the error of the date.
C26_Witness ==
  /\ parsed # None
  /\ csv.kind = "transaction"
  /\ Acceptable(csv.kind, csv.content.header)
  /\ ~parsed[1].crashed
  /\ \E n \in 1..Len(NonBlank(csv.content.rows)) :
       LET header == csv.content.header
           line == NonBlank(csv.content.rows)[n]
       IN /\ CheckFails("date", header, line)
          /\ CheckFails("type", header, line)
          /\ CheckFails("amount", header, line)
          /\ RejectedAt(parsed[1], n)
          /\ EntryAt(parsed[1], n).error = "Invalid isoformat string"

(***************************************************************************)
(* Claim C27: the signature of a stored record and of the row it came from *)
(***************************************************************************)

\* The rows of an apply request that pass apply's validation and carry the
\* signature, and the records a step added that carry it in the store after
\* the step, their names resolved as the upload resolves them.
RowsWith(q, sig) ==
  {i \in 1..Len(q.valid_rows) :
     Insertable(q.kind, q.valid_rows[i]) /\ sig_from_row(q.kind, q.valid_rows[i]) = sig}

NewWith(q, sig) ==
  {x \in NewRecords(q.kind) : ExistingSig(db', q.kind, q.uid, x) = sig}

\* C27: for every valid row that apply inserts, the signature computed from
\* the stored record, its category and subcategory names resolved, equals
\* the signature computed from the row: the records an apply adds carry the
\* signatures of the rows inserted, as many of each as there are such rows,
\* and an upload of the same rows to the store the apply leaves flags every
\* one of them as a duplicate.
C27_StoredSignatureIsRowSignature ==
  [][\A q \in BagToSet(inflight) :
       ApplyStore(q) =>
         /\ \A x \in NewRecords(q.kind) :
              RowsWith(q, ExistingSig(db', q.kind, q.uid, x)) # {}
         /\ \A i \in 1..Len(q.valid_rows) :
              Insertable(q.kind, q.valid_rows[i]) =>
                Cardinality(NewWith(q, sig_from_row(q.kind, q.valid_rows[i])))
                  = Cardinality(RowsWith(q, sig_from_row(q.kind, q.valid_rows[i])))
         /\ {i \in 1..Len(q.valid_rows) : Insertable(q.kind, q.valid_rows[i])}
              \subseteq Duplicates(q.kind, q.valid_rows,
                                   ExistingSigs(db', q.kind, q.uid))]_vars

\* A file was applied and the same file, uploaded after that, has its
\* inserted rows flagged, rows with names in capitals among them.
C27_Witness ==
  \E kind \in Kinds : \E b \in DOMAIN IMPORT_BATCHES[kind] :
    LET batch == IMPORT_BATCHES[kind][b]
    IN /\ history[b].before # <<>>
       /\ \E a \in DOMAIN history :
            /\ history[a].applied >= 1
            /\ history[a].file = history[b].file
            /\ history[a].uid = history[b].uid
            /\ history[b].before[1].batch_id = a
       /\ \E i \in batch["duplicates_idx"] :
            /\ Insertable(kind, batch["valid_rows"][i])
            /\ batch["valid_rows"][i].category
                 # Lower(batch["valid_rows"][i].category)

(***************************************************************************)
(* Claim C28: replace after the store has changed                          *)
(*                                                                         *)
(* The import of budgets next to the requests that create, edit and delete *)
(* a budget (budgets.py 704-835, 875-1062, 1065-1080), for one logged-in   *)
(* user.  calls.made counts these requests.                                *)
(***************************************************************************)

\* The create, edit and delete requests of a run.
MaxRequests == 2

\* The amounts an edit form posts.
EditAmounts == {"120.50", "900.00"}

\* The form of a one-time expense of 120.50 EUR on 2025-02-01.
OneTimeForm(uid, category_id) ==
  [uid |-> uid, category_id |-> category_id, subcategory_id |-> "",
   amount_eur |-> "120.50", is_recurring |-> "", repeat_unit |-> "",
   repeat_interval |-> "", day_of_month |-> "", weekday |-> "",
   one_time_date |-> Some(<<2025, 2, 1>>), start_date |-> None]

\* edit_budget_apply for a form that posts the budget's own fields and a
\* new amount: the store after the request.
edit_budget_apply(d, uid, budget_id, amount_eur) ==
  LET found == {b \in d.Budget : b.id = budget_id /\ b.user_id = uid}
      amount == euros_to_cents(amount_eur)
      budget == CHOOSE b \in found : TRUE
      edited == [budget EXCEPT !.amount_cents = amount.cents]
  IN IF uid = 0 \/ found = {} THEN d
     ELSE IF ~amount.ok THEN d
     ELSE IF ~validate_budget(edited) THEN d
     ELSE [d EXCEPT !.Budget = (@ \ {budget}) \cup {edited}]

\* delete_budget: the store after the request.
delete_budget(d, uid, budget_id) ==
  IF uid = 0 THEN d
  ELSE [d EXCEPT !.Budget = {b \in @ : ~(b.id = budget_id /\ b.user_id = uid)}]

Requested == calls' = [calls EXCEPT !.made = @ + 1]

\* POST /budget
CreateRequest(s, category_id) ==
  /\ calls.made < MaxRequests
  /\ LET f == OneTimeForm(session[s].user_id, category_id)
         r == create_budget(db, f, euros_to_cents_chars(Some(Chars(Strip(f.amount_eur)))),
                            FALSE)
     IN db' = IF r.b = None THEN db
              ELSE [db EXCEPT !.Budget = @ \cup {WithId(r.b[1], db.next.Budget)},
                              !.next.Budget = @ + 1]
  /\ Requested
  /\ UNCHANGED <<session, IMPORT_BATCHES, next_batch, inflight, resp, history,
                 provenance, csv, parsed, money, plan, form>>

\* POST /budget/{budget_id}/edit
EditRequest(s, budget_id, amount_eur) ==
  /\ calls.made < MaxRequests
  /\ db' = edit_budget_apply(db, session[s].user_id, budget_id, amount_eur)
  /\ Requested
  /\ UNCHANGED <<session, IMPORT_BATCHES, next_batch, inflight, resp, history,
                 provenance, csv, parsed, money, plan, form>>

\* POST /budget/{budget_id}/delete
DeleteRequest(s, budget_id) ==
  /\ calls.made < MaxRequests
  /\ db' = delete_budget(db, session[s].user_id, budget_id)
  /\ Requested
  /\ UNCHANGED <<session, IMPORT_BATCHES, next_batch, inflight, resp, history,
                 provenance, csv, parsed, money, plan, form>>

NextReplace ==
  \/ \E s \in Sessions : Login(s, 1)
  \/ \E s \in Sessions : Upload(s, "budget", "budgets.csv", TRUE)
  \/ \E s \in Sessions, a \in {"keep", "replace"} : ApplyBegin(s, "budget", a)
  \/ \E q \in BagToSet(inflight) : ApplyStore(q)
  \/ \E q \in BagToSet(inflight) : ApplyCleanup(q)
  \/ \E s \in Sessions, c \in {"1", "2"} : CreateRequest(s, c)
  \/ \E s \in Sessions, id \in 1..(db.next.Budget - 1), a \in EditAmounts :
       EditRequest(s, id, a)
  \/ \E s \in Sessions, id \in 1..(db.next.Budget - 1) : DeleteRequest(s, id)

SpecReplace == Init /\ [][NextReplace]_vars

\* The records of the user that a step removed from the store.
Removed(q) ==
  {x \in RecordsOf(db, q.kind, q.uid) :
     \A y \in RecordsOf(db', q.kind, q.uid) : y.id # x.id}

\* C28, as stated: apply with action replace deletes a stored record only
\* if, at the moment of the apply, the record's signature equals the
\* signature of some valid row of the batch, and leaves no stored record
\* with such a signature other than the newly inserted ones, also when the
\* user created, edited or deleted records between the upload and the apply.
C28_ReplaceDeletesMatchesAtApply ==
  [][\A q \in BagToSet(inflight) :
       (ApplyStore(q) /\ q.action = "replace") =>
         /\ \A x \in Removed(q) :
              ExistingSig(db, q.kind, q.uid, x) \in Sigs(q.kind, q.valid_rows)
         /\ \A y \in RecordsOf(db', q.kind, q.uid) :
              ExistingSig(db', q.kind, q.uid, y) \in Sigs(q.kind, q.valid_rows)
                => y \in NewRecords(q.kind)]_vars

(***************************************************************************)
(* Claim C29: the import of one user and the records of the others         *)
(***************************************************************************)

Tables == {"Budget", "Transaction", "Category", "Subcategory"}

\* The rows of a store that a user owns, table by table, and the store with
\* the rows of every other user taken out.
OwnTables(d, uid) == [t \in Tables |-> {x \in d[t] : x.user_id = uid}]

Own(d, uid) == [t \in Tables \cup {"next"} |->
                  IF t = "next" THEN d.next ELSE OwnTables(d, uid)[t]]

\* C29: the duplicate flags an upload computes for user U, and so the flags
\* and counts of the review page, are those computed from U's own stored
\* records alone; and an apply by U, keep or replace, leaves the budgets,
\* transactions, categories and subcategories of every other user as they
\* were and writes to U's what it writes when the others hold nothing.
C29_ImportSeesAndTouchesOwnRecordsOnly ==
  [][/\ next_batch' # next_batch =>
          \A kind \in Kinds :
            next_batch \in DOMAIN IMPORT_BATCHES'[kind] =>
              LET batch == IMPORT_BATCHES'[kind][next_batch]
              IN batch["duplicates_idx"]
                   = Duplicates(kind, batch["valid_rows"],
                                ExistingSigs(Own(db, batch["uid"]), kind, batch["uid"]))
     /\ (resp' # resp /\ resp'.op = "review" /\ resp'.body.result = "page") =>
          LET batch == IMPORT_BATCHES[resp'.kind][resp'.body.batch_id]
          IN /\ batch["uid"] = resp'.uid
             /\ resp'.body.dup_count = Cardinality(batch["duplicates_idx"])
             /\ \A i \in DOMAIN resp'.body.preview :
                  resp'.body.preview[i] = (i \in batch["duplicates_idx"])
     /\ \A q \in BagToSet(inflight) :
          ApplyStore(q) =>
            /\ \A u \in Users \ {q.uid} : OwnTables(db', u) = OwnTables(db, u)
            /\ OwnTables(db', q.uid) = OwnTables(ApplyWrites(Own(db, q.uid), q), q.uid)]_vars

\* One user holds records, and another user, whose upload of the same file
\* got no flag, has applied it with replace.
C29_Witness ==
  \E u, v \in Users, kind \in Kinds :
    /\ u # v
    /\ RecordsOf(db, kind, v) # {}
    /\ provenance[v][kind] # <<>>
    /\ provenance[u][kind] # <<>>
    /\ LET b == provenance[u][kind][1].batch_id
       IN /\ provenance[u][kind][1].action = "replace"
          /\ provenance[v][kind][1].batch_id < b
          /\ history[b].file = history[provenance[v][kind][1].batch_id].file
          /\ b \in DOMAIN IMPORT_BATCHES[kind]
          /\ IMPORT_BATCHES[kind][b]["duplicates_idx"] = {}
          /\ \E x \in RecordsOf(db, kind, v) :
               ExistingSig(db, kind, v, x) \in Sigs(kind, IMPORT_BATCHES[kind][b]["valid_rows"])

(***************************************************************************)
(* Claim C30: an apply request that fails on the way                       *)
(*                                                                         *)
(* The apply of a budget batch statement by statement (budgets.py 643-701, *)
(* 387-414): the session's commits are the steps at which other requests   *)
(* see its writes.  A request holds, next to the locals of ApplyLocals,    *)
(* the position i of its row loop, the category and subcategory of the     *)
(* row, the records added to its session and not committed yet, and, for   *)
(* the record of what it did, the rows it deleted and the rows it has      *)
(* committed.                                                              *)
(***************************************************************************)

StepLocals(s, kind, action) ==
  LET q == ApplyLocals(s, kind, action)
  IN [pc |-> "delete", sid |-> q.sid, kind |-> q.kind, uid |-> q.uid,
      action |-> q.action, batch_id |-> q.batch_id, session |-> q.session,
      valid_rows |-> q.valid_rows, existing_sigs |-> q.existing_sigs,
      i |-> 1, cat_id |-> 0, sub_id |-> None, pending |-> <<>>,
      deleted |-> {}, wrote |-> {}]

Moved(q, next) == inflight' = (inflight (-) SetToBag({q})) (+) SetToBag({next})

\* The handler up to its checks: a request that fails one is answered at
\* once, one that passes them goes on with the batch's rows and index.
StepBegin(s, kind, action) ==
  /\ BagCardinality(inflight) < Cardinality(Workers)
  /\ IF apply_check(s, kind, action) = "go"
       THEN /\ inflight' = inflight (+) SetToBag({StepLocals(s, kind, action)})
            /\ UNCHANGED resp
       ELSE /\ resp' = [op |-> "apply", sid |-> s, uid |-> session[s].user_id,
                        kind |-> kind,
                        body |-> [result |-> apply_check(s, kind, action)]]
            /\ UNCHANGED inflight
  /\ UNCHANGED <<session, IMPORT_BATCHES, db, next_batch, history, provenance,
                 csv, parsed, money, plan, form, calls>>

\* if action == "replace": ... db.delete(b) ... db.commit()
StepDelete(q) ==
  /\ q.pc = "delete"
  /\ LET ids == IF q.action = "replace"
                  THEN IdsToDelete(q.kind, q.valid_rows, q.existing_sigs) ELSE {}
         gone == {x \in RecordsOf(db, q.kind, q.uid) : x.id \in ids}
     IN /\ db' = DeleteIds(db, q.kind, q.uid, ids)
        /\ Moved(q, [q EXCEPT !.pc = "category", !.deleted = gone])
  /\ UNCHANGED <<session, IMPORT_BATCHES, next_batch, resp, history, provenance,
                 csv, parsed, money, plan, form, calls>>

\* The store after a commit of the session: the records added and not yet
\* committed get their keys and are written.
RECURSIVE Committed(_, _, _)
Committed(d, t, pending) ==
  IF pending = <<>> THEN d
  ELSE Committed([d EXCEPT ![t] = @ \cup {WithId(Head(pending), d.next[t])},
                           !.next[t] = @ + 1],
                 t, Tail(pending))

\* The rows a commit of the pending records writes to the table
Written(d, t, pending) == {[table |-> t, id |-> d.next[t] + k - 1] : k \in 1..Len(pending)}

\* for r in valid_rows: the SELECT of _ensure_category, or the end of the loop
StepCategory(q) ==
  /\ q.pc = "category"
  /\ IF q.i > Len(q.valid_rows) THEN Moved(q, [q EXCEPT !.pc = "commit"])
     ELSE LET r == q.valid_rows[q.i]
              found == {c \in db.Category : c.user_id = q.uid /\ c.name = r.category}
          IN IF found = {} THEN Moved(q, [q EXCEPT !.pc = "category_add"])
             ELSE Moved(q, [q EXCEPT !.cat_id = MinId(found).id,
                                     !.pc = IF r.subcategory # None THEN "subcategory"
                                            ELSE "row"])
  /\ UNCHANGED <<session, IMPORT_BATCHES, db, next_batch, resp, history, provenance,
                 csv, parsed, money, plan, form, calls>>

\* db.add(c); db.commit() of _ensure_category: the commit writes the records
\* of the session too, or raises IntegrityError and the request ends
StepCategoryAdd(q) ==
  /\ q.pc = "category_add"
  /\ LET r == q.valid_rows[q.i]
         t == Table(q.kind)
         c == [id |-> db.next.Category, user_id |-> q.uid, name |-> Strip(r.category)]
         d == Committed(db, t, q.pending)
     IN IF \E x \in db.Category : x.user_id = c.user_id /\ x.name = c.name
          THEN /\ Moved(q, [q EXCEPT !.pc = "failed", !.pending = <<>>])
               /\ UNCHANGED db
          ELSE /\ db' = [d EXCEPT !.Category = @ \cup {c}, !.next.Category = @ + 1]
               /\ Moved(q, [q EXCEPT !.cat_id = c.id, !.pending = <<>>,
                                     !.wrote = @ \cup Written(db, t, q.pending)
                                                 \cup {[table |-> "Category", id |-> c.id]},
                                     !.pc = IF r.subcategory # None THEN "subcategory"
                                            ELSE "row"])
  /\ UNCHANGED <<session, IMPORT_BATCHES, next_batch, resp, history, provenance,
                 csv, parsed, money, plan, form, calls>>

\* The SELECT of _ensure_subcategory
StepSubcategory(q) ==
  /\ q.pc = "subcategory"
  /\ LET r == q.valid_rows[q.i]
         found == {x \in db.Subcategory : /\ x.user_id = q.uid
                                          /\ x.category_id = q.cat_id
                                          /\ x.name = r.subcategory[1]}
     IN IF found = {} THEN Moved(q, [q EXCEPT !.pc = "subcategory_add"])
        ELSE Moved(q, [q EXCEPT !.sub_id = Some(MinId(found).id), !.pc = "row"])
  /\ UNCHANGED <<session, IMPORT_BATCHES, db, next_batch, resp, history, provenance,
                 csv, parsed, money, plan, form, calls>>

\* db.add(s); db.commit() of _ensure_subcategory
StepSubcategoryAdd(q) ==
  /\ q.pc = "subcategory_add"
  /\ LET r == q.valid_rows[q.i]
         t == Table(q.kind)
         x == [id |-> db.next.Subcategory, user_id |-> q.uid, category_id |-> q.cat_id,
               name |-> Strip(r.subcategory[1])]
         d == Committed(db, t, q.pending)
     IN IF \E y \in db.Subcategory : y.category_id = x.category_id /\ y.name = x.name
          THEN /\ Moved(q, [q EXCEPT !.pc = "failed", !.pending = <<>>])
               /\ UNCHANGED db
          ELSE /\ db' = [d EXCEPT !.Subcategory = @ \cup {x}, !.next.Subcategory = @ + 1]
               /\ Moved(q, [q EXCEPT !.sub_id = Some(x.id), !.pending = <<>>,
                                     !.wrote = @ \cup Written(db, t, q.pending)
                                                 \cup {[table |-> "Subcategory", id |-> x.id]},
                                     !.pc = "row"])
  /\ UNCHANGED <<session, IMPORT_BATCHES, next_batch, resp, history, provenance,
                 csv, parsed, money, plan, form, calls>>

\* b = Budget(...); validate_budget(b); db.add(b): the end of a turn of the loop
StepRow(q) ==
  /\ q.pc = "row"
  /\ LET r == q.valid_rows[q.i]
         sub_id == IF r.subcategory # None THEN q.sub_id ELSE None
         rec == IF q.kind = "budget" THEN NewBudget(q.uid, r, q.cat_id, sub_id)
                ELSE NewTransaction(q.uid, r, q.cat_id, sub_id)
         valid == IF q.kind = "budget" THEN validate_budget(rec)
                  ELSE validate_transaction(rec)
     IN Moved(q, [q EXCEPT !.i = @ + 1, !.pc = "category", !.sub_id = None,
                           !.pending = IF valid THEN Append(@, rec) ELSE @])
  /\ UNCHANGED <<session, IMPORT_BATCHES, db, next_batch, resp, history, provenance,
                 csv, parsed, money, plan, form, calls>>

\* db.commit() after the loop
StepCommit(q) ==
  /\ q.pc = "commit"
  /\ db' = Committed(db, Table(q.kind), q.pending)
  /\ Moved(q, [q EXCEPT !.pc = "cleanup", !.pending = <<>>,
                        !.wrote = @ \cup Written(db, Table(q.kind), q.pending)])
  /\ UNCHANGED <<session, IMPORT_BATCHES, next_batch, resp, history, provenance,
                 csv, parsed, money, plan, form, calls>>

NextSteps ==
  \/ \E s \in Sessions : Login(s, 1)
  \/ \E s \in Sessions : Upload(s, "budget", "budgets.csv", TRUE)
  \/ \E s \in Sessions, a \in {"keep", "replace"} : StepBegin(s, "budget", a)
  \/ \E q \in BagToSet(inflight) : StepDelete(q)
  \/ \E q \in BagToSet(inflight) : StepCategory(q)
  \/ \E q \in BagToSet(inflight) : StepCategoryAdd(q)
  \/ \E q \in BagToSet(inflight) : StepSubcategory(q)
  \/ \E q \in BagToSet(inflight) : StepSubcategoryAdd(q)
  \/ \E q \in BagToSet(inflight) : StepRow(q)
  \/ \E q \in BagToSet(inflight) : StepCommit(q)
  \/ \E q \in BagToSet(inflight) : ApplyCleanup(q)

SpecSteps == Init /\ [][NextSteps]_vars

\* C30, as stated: when an apply request has failed before completing, the
\* store holds neither the deletions of its replace nor any of its inserts
\* (no record, category or subcategory it wrote), and the batch is still in
\* the batch store, so that the apply can be retried.
C30_FailedApplyLeavesNoTrace ==
  \A q \in BagToSet(inflight) :
    q.pc = "failed" =>
      /\ q.deleted \subseteq db[Table(q.kind)]
      /\ \A w \in q.wrote : ~\E x \in db[w.table] : x.id = w.id
      /\ q.batch_id \in DOMAIN IMPORT_BATCHES[q.kind]

====
